---- MODULE Spec2Model ----
(***************************************************************************)
(* A model of the RPC (rational polynomial coefficient) transformer of     *)
(* alg/gdal_rpc.cpp: construction, the forward transform, the elevation    *)
(* sampler, the iterative inverse transform, the whole-line DEM optimizer  *)
(* and the batch entry point GDALRPCTransform.                             *)
(*                                                                         *)
(* A C double is a fixed-point integer counting units of 1/FP: 0.1 is 1,   *)
(* 0.5 is 5, one pixel or one degree or one metre is FP.  Products and     *)
(* quotients round to the nearest unit.  NULL is the null pointer.         *)
(***************************************************************************)
EXTENDS Integers, Sequences, FiniteSets, TLC

VARIABLES
    psTransform,   \* the GDALRPCTransformInfo in use, or NULL
    createArgs,    \* the arguments it was created with, or NULL
    nCountWarningsAboutAboveOneNormalizedValues, \* static of RPCTransformPoint
    call,          \* arguments of the last GDALRPCTransform call, or NULL
    padfX, padfY,  \* the caller's coordinate arrays after the call
    panSuccess,    \* the caller's flag array after the call
    ret,           \* return value of the last call
    usedWholeLine, \* whether the last call went through the whole-line optimizer
    points,        \* per point of the last call: what the loop body did
    inv,           \* locals of a running RPCInverseTransformPoint, or NULL
    psTree,        \* the tree GDALSerializeRPCTransformer returned, or NULL
    pResult,       \* what GDALDeserializeRPCTransformer returned for it
    psNewInfo,     \* what GDALCreateSimilarRPCTransformer returned
    adfRatio,      \* the ratios it was called with, or NULL
    heap,          \* allocations and releases of the last construction
    eval,          \* the last direct RPCTransformPoint evaluation, or NULL
    running,       \* per thread: its RPCTransformPoint call under way, or NULL
    bOnce          \* the static flag of GDALRPCTransform (line 1908)

vars == <<psTransform, createArgs,
          nCountWarningsAboutAboveOneNormalizedValues, call,
          padfX, padfY, panSuccess, ret, usedWholeLine, points, inv,
          psTree, pResult, psNewInfo, adfRatio, heap, eval, running,
          bOnce>>

\* what only the callers of serialization, of failing constructions and
\* of RPCTransformPoint on its own change
derived == <<psTree, pResult, psNewInfo, adfRatio, heap, eval, running>>

\* the threads of the process that evaluate RPCTransformPoint directly
Threads == { 1, 2 }

\* the null pointer to a structure, and the lack of a number (a lookup that
\* returned FALSE, an output never written)
NULL == [ ptr |-> "null" ]
\* a pointer variable of the caller that no call has assigned yet
UNSET == [ ptr |-> "unset" ]

(***************************************************************************)
(* Arithmetic on doubles.                                                  *)
(***************************************************************************)
FP == 10
HUGE_VAL == 1000000000
MAX_ABS_VALUE_WARNINGS == 20
DEFAULT_PIX_ERR_THRESHOLD == 1

Abs(a) == IF a < 0 THEN -a ELSE a
fabs(a) == Abs(a)
Max(a, b) == IF a >= b THEN a ELSE b
Min(a, b) == IF a <= b THEN a ELSE b
Sign(a) == IF a < 0 THEN -1 ELSE IF a > 0 THEN 1 ELSE 0

\* n / d rounded to the nearest integer, halves away from zero (d # 0).
RoundDiv(n, d) ==
    LET an == Abs(n)
        ad == Abs(d)
        q == (2 * an + ad) \div (2 * ad)
    IN  IF Sign(n) * Sign(d) < 0 THEN -q ELSE q

FMul(a, b) == IF a = 0 \/ b = 0 THEN 0 ELSE RoundDiv(a * b, FP)
FDiv(a, b) == IF b = 0 THEN HUGE_VAL ELSE RoundDiv(a * FP, b)
Half == FP \div 2
\* the array with the elements of f, each computed once
Array(f) == f \o << >>
NONE == 0 - HUGE_VAL
\* floor() and the (int) cast of a double, as whole numbers
Floor(a) == a \div FP
IntCast(a) == IF a >= 0 THEN a \div FP ELSE -((-a) \div FP)

(***************************************************************************)
(* RPCComputeTerms and RPCEvaluate.                                        *)
(***************************************************************************)
RPCComputeTerms(dfLong, dfLat, dfHeight) ==
    << FP,
       dfLong,
       dfLat,
       dfHeight,
       FMul(dfLong, dfLat),
       FMul(dfLong, dfHeight),
       FMul(dfLat, dfHeight),
       FMul(dfLong, dfLong),
       FMul(dfLat, dfLat),
       FMul(dfHeight, dfHeight),
       FMul(FMul(dfLong, dfLat), dfHeight),
       FMul(FMul(dfLong, dfLong), dfLong),
       FMul(FMul(dfLong, dfLat), dfLat),
       FMul(FMul(dfLong, dfHeight), dfHeight),
       FMul(FMul(dfLong, dfLong), dfLat),
       FMul(FMul(dfLat, dfLat), dfLat),
       FMul(FMul(dfLat, dfHeight), dfHeight),
       FMul(FMul(dfLong, dfLong), dfHeight),
       FMul(FMul(dfLat, dfLat), dfHeight),
       FMul(FMul(dfHeight, dfHeight), dfHeight) >>

RECURSIVE StripedSum(_, _, _)
\* sum of padfTerms[i] * padfCoefs[i] for i = from, from + 2, ... (1-based)
StripedSum(padfTerms, padfCoefs, from) ==
    IF from > 20 THEN 0
    ELSE FMul(padfTerms[from], padfCoefs[from])
         + StripedSum(padfTerms, padfCoefs, from + 2)

RPCEvaluate(padfTerms, padfCoefs) ==
    LET dfSum1 == StripedSum(padfTerms, padfCoefs, 1)
        dfSum2 == StripedSum(padfTerms, padfCoefs, 2)
    IN  dfSum1 + dfSum2

(***************************************************************************)
(* RPCTransformPoint: ground (long, lat, height) to pixel, line.           *)
(* bWarned tells whether the call found a normalized value above 1.5: the  *)
(* caller adds it to the static counter while that is below the limit.     *)
(***************************************************************************)
\* WrapDiffLong turning by half a circle instead of a whole one
WrapDiffLongHalfTurn(diffLong) ==
    IF diffLong < -270 * FP THEN diffLong + 180 * FP
    ELSE IF diffLong > 270 * FP THEN diffLong - 180 * FP
    ELSE diffLong

\* WrapDiffLong wrapping only differences beyond the eastern limit
WrapDiffLongEastOnly(diffLong) ==
    IF diffLong > 270 * FP THEN diffLong - 360 * FP ELSE diffLong
WrapDiffLong(diffLong) ==
    IF diffLong < -270 * FP THEN diffLong + 360 * FP
    ELSE IF diffLong > 270 * FP THEN diffLong - 360 * FP
    ELSE diffLong

\* RPCPixelLine without the half pixel of the corner convention
RPCPixelLineOfCentre(sRPC, dfResultX, dfResultY, bWarned) ==
    [ pixel |-> FMul(dfResultX, sRPC.dfSAMP_SCALE) + sRPC.dfSAMP_OFF,
      line |-> FMul(dfResultY, sRPC.dfLINE_SCALE) + sRPC.dfLINE_OFF,
      bWarned |-> bWarned ]

\* the pixel and line of the two quotients
RPCPixelLine(sRPC, dfResultX, dfResultY, bWarned) ==
    [ pixel |-> IF dfResultX = HUGE_VAL THEN HUGE_VAL
                ELSE FMul(dfResultX, sRPC.dfSAMP_SCALE)
                     + sRPC.dfSAMP_OFF + Half,
      line |-> IF dfResultY = HUGE_VAL THEN HUGE_VAL
               ELSE FMul(dfResultY, sRPC.dfLINE_SCALE)
                    + sRPC.dfLINE_OFF + Half,
      bWarned |-> bWarned ]

\* the two quotients of polynomials in the terms
RPCQuotients(sRPC, padfTerms, bWarned) ==
    RPCPixelLine(sRPC,
                 FDiv(RPCEvaluate(padfTerms, sRPC.adfSAMP_NUM_COEFF),
                      RPCEvaluate(padfTerms, sRPC.adfSAMP_DEN_COEFF)),
                 FDiv(RPCEvaluate(padfTerms, sRPC.adfLINE_NUM_COEFF),
                      RPCEvaluate(padfTerms, sRPC.adfLINE_DEN_COEFF)),
                 bWarned)

\* the transform of normalized coordinates, with the test for the warning
RPCTransformNormalized(sRPC, dfNormalizedLong, dfNormalizedLat, dfNormalizedHeight) ==
    RPCQuotients(sRPC,
                 RPCComputeTerms(dfNormalizedLong, dfNormalizedLat,
                                 dfNormalizedHeight),
                 \/ fabs(dfNormalizedLong) > FP + Half
                 \/ fabs(dfNormalizedLat) > FP + Half
                 \/ fabs(dfNormalizedHeight) > FP + Half)

RPCTransformPoint(psInfo, dfLong, dfLat, dfHeight) ==
    RPCTransformNormalized(
        psInfo.sRPC,
        FDiv(WrapDiffLong(dfLong - psInfo.sRPC.dfLONG_OFF),
             psInfo.sRPC.dfLONG_SCALE),
        FDiv(dfLat - psInfo.sRPC.dfLAT_OFF, psInfo.sRPC.dfLAT_SCALE),
        FDiv(dfHeight - psInfo.sRPC.dfHEIGHT_OFF, psInfo.sRPC.dfHEIGHT_SCALE))

\* the static counter after nWarned more evaluations that warned
CountWarnings(nCount, nWarned) == Min(MAX_ABS_VALUE_WARNINGS, nCount + nWarned)

(***************************************************************************)
(* The collaborators: geotransforms, the elevation rasters GDALOpen can    *)
(* return, coordinate transformations, the footprint's containment test.   *)
(***************************************************************************)
GDALApplyGeoTransform(gt, dfPixel, dfLine) ==
    [ x |-> gt[1] + FMul(dfPixel, gt[2]) + FMul(dfLine, gt[3]),
      y |-> gt[4] + FMul(dfPixel, gt[5]) + FMul(dfLine, gt[6]) ]

\* the inverse of a geotransform, or <<>> when its determinant is zero
GDALInvGeoTransform(gt) ==
    LET det == gt[2] * gt[6] - gt[3] * gt[5]
    IN  IF det = 0 THEN << >>
        ELSE << RoundDiv((gt[3] * gt[4] - gt[1] * gt[6]) * FP, det),
                RoundDiv(gt[6] * FP * FP, det),
                RoundDiv(-gt[3] * FP * FP, det),
                RoundDiv((gt[1] * gt[5] - gt[2] * gt[4]) * FP, det),
                RoundDiv(-gt[5] * FP * FP, det),
                RoundDiv(gt[2] * FP * FP, det) >>

DEMNoData == -9999
DEMXSize == 6
DEMYSize == 4

\* The elevation rasters of the file system, by path: each one degree per
\* pixel, north up, covering longitudes 8..14 and latitudes 4..8.
\*   dem.tif      a slope, every pixel valid
\*   hole.tif     the slope with two invalid pixels
\*   void.tif     every pixel invalid
\*   utm.tif      the slope in another reference frame (needs a transformation)
\*   noband.tif   a dataset without a raster band
\*   flat.tif     the slope with a geotransform that has no inverse
\*   world.tif    the slope over longitudes -180..180 (360 pixels a row),
\*                with one invalid pixel at its western edge
\*   skew.tif     the slope with a sheared geotransform
DEMPaths ==
    {"dem.tif", "hole.tif", "void.tif", "utm.tif", "noband.tif", "flat.tif",
     "world.tif", "skew.tif"}
UTMFalseEasting == 100 * FP

DEMPixelValue(pszPath, nX, nY) ==
    LET slope == 2 * ((nX + 2 * nY) % 4)
    IN  CASE pszPath = "void.tif" -> DEMNoData
          [] pszPath = "hole.tif" ->
                IF nX = 1 /\ nY \in {1, 2} THEN DEMNoData ELSE slope
          [] pszPath = "world.tif" ->
                IF nX = 0 /\ nY = 1 THEN DEMNoData ELSE slope
          [] OTHER -> slope

GDALOpen(pszPath) ==
    IF pszPath \notin DEMPaths THEN NULL
    ELSE [ pszPath |-> pszPath,
           nRasterXSize |-> IF pszPath = "world.tif" THEN 360 ELSE DEMXSize,
           nRasterYSize |-> DEMYSize,
           nRasterCount |-> IF pszPath = "noband.tif" THEN 0 ELSE 1,
           bHasGeoTransform |-> TRUE,
           adfGeoTransform |->
               << IF pszPath = "world.tif" THEN -180 * FP
                  ELSE 8 * FP + (IF pszPath = "utm.tif" THEN UTMFalseEasting
                                 ELSE 0),
                  IF pszPath = "flat.tif" THEN 0 ELSE FP,
                  IF pszPath = "skew.tif" THEN 1 ELSE 0, 8 * FP, 0, -FP >>,
           bGotNoDataValue |-> pszPath \in {"hole.tif", "void.tif",
                                            "world.tif"},
           dfNoDataValue |-> DEMNoData,
           pszSRS |-> IF pszPath = "utm.tif" THEN "UTM" ELSE "WGS84",
           bCompound |-> FALSE ]

\* OGRCreateCoordinateTransformation from WGS84 to a raster's frame
OGRCreateCoordinateTransformation(pszSRS) ==
    CASE pszSRS = "UTM" -> [ dfShiftX |-> UTMFalseEasting, dfGeoidZ |-> 0,
                             dfMinLong |-> 9 * FP ]
      [] pszSRS = "NAD83" -> [ dfShiftX |-> 0, dfGeoidZ |-> 0,
                               dfMinLong |-> -360 * FP ]
      [] pszSRS = "EGM96" -> [ dfShiftX |-> 0, dfGeoidZ |-> -4,
                               dfMinLong |-> -360 * FP ]
      [] OTHER -> NULL

ARE_REAL_EQUAL(a, b) == a = b

\* OGRCoordinateTransformation::Transform from WGS84 to the raster's frame:
\* NULL when the point cannot be transformed (outside the frame's domain).
CTTransform(poCT, dfX, dfY) ==
    IF Abs(dfY) > 90 * FP \/ Abs(dfX) > 360 * FP \/ dfX < poCT.dfMinLong
    THEN NULL
    ELSE [ x |-> dfX + poCT.dfShiftX, y |-> dfY, z |-> poCT.dfGeoidZ ]

\* OGRPreparedGeometryContains for the footprints of the model: rectangles
\* [minX, maxX] x [minY, maxY]; a point on the boundary is not contained.
OGRPreparedGeometryContains(geom, dfX, dfY) ==
    /\ geom.minX < dfX /\ dfX < geom.maxX
    /\ geom.minY < dfY /\ dfY < geom.maxY

RPCIsValidLongLat(psInfo, dfLong, dfLat) ==
    IF psInfo.poRPCFootprintPreparedGeom = NULL THEN TRUE
    ELSE OGRPreparedGeometryContains(psInfo.poRPCFootprintPreparedGeom,
                                     dfLong, dfLat)

(***************************************************************************)
(* Sampling the elevation raster.                                          *)
(***************************************************************************)
DRA_NearestNeighbour == "near"
DRA_Bilinear == "bilinear"
DRA_CubicSpline == "cubic"
DEMResampleAlg == {DRA_NearestNeighbour, DRA_Bilinear, DRA_CubicSpline}

Cube(a) == IF a <= 0 THEN 0 ELSE a * a * a

\* The cubic B-spline kernel, in units of 1/(6 * FP^3).
CubicSplineKernel(dfVal) ==
    IF dfVal > 2 * FP THEN 0
    ELSE Cube(dfVal + 2 * FP) - 4 * Cube(dfVal + FP) + 6 * Cube(dfVal)
         - 4 * Cube(dfVal - FP)

\* the weight of the kernel cell (k_j, k_i) of a 4x4 block, k in 0..3
CubicPixelWeight(k_j, k_i, dfDeltaX, dfDeltaY) ==
    RoundDiv(CubicSplineKernel((k_j - 1) * FP - dfDeltaX)
             * CubicSplineKernel((k_i - 1) * FP - dfDeltaY), FP * FP)

RECURSIVE SumOver(_, _)
\* the sum of f[k] over the numbers k of the set S
SumOver(f, S) ==
    IF S = {} THEN 0
    ELSE LET k == CHOOSE m \in S : \A o \in S : m <= o
         IN  f[k] + SumOver(f, S \ {k})

\* The 4x4 cubic convolution around block origin (nXNew, nYNew), skipping
\* nodata samples: NONE when no sample counts.
CubicConvolution(poDS, nXNew, nYNew, dfDeltaX, dfDeltaY) ==
    LET cells == 0..15
        elev == [ c \in cells |->
                    DEMPixelValue(poDS.pszPath, nXNew + (c % 4),
                                  nYNew + (c \div 4)) ]
        skip == [ c \in cells |->
                    /\ poDS.bGotNoDataValue
                    /\ ARE_REAL_EQUAL(poDS.dfNoDataValue, elev[c]) ]
        wgt == [ c \in cells |->
                    IF skip[c] THEN 0
                    ELSE CubicPixelWeight(c % 4, c \div 4, dfDeltaX, dfDeltaY) ]
        dfSumH == SumOver([ c \in cells |-> elev[c] * wgt[c] ], cells)
        dfSumWeight == SumOver(wgt, cells)
    IN  IF dfSumWeight = 0 THEN NONE ELSE RoundDiv(dfSumH, dfSumWeight)

\* the 2x2 block at (nX, nY) in reading order
BilinearBlock(poDS, nX, nY) ==
    << DEMPixelValue(poDS.pszPath, nX, nY),
       DEMPixelValue(poDS.pszPath, nX + 1, nY),
       DEMPixelValue(poDS.pszPath, nX, nY + 1),
       DEMPixelValue(poDS.pszPath, nX + 1, nY + 1) >>

BilinearValue(adfElevData, dfDeltaX, dfDeltaY) ==
    LET dfDeltaX1 == FP - dfDeltaX
        dfDeltaY1 == FP - dfDeltaY
        dfXZ1 == adfElevData[1] * dfDeltaX1 + adfElevData[2] * dfDeltaX
        dfXZ2 == adfElevData[3] * dfDeltaX1 + adfElevData[4] * dfDeltaX
    IN  RoundDiv(dfXZ1 * dfDeltaY1 + dfXZ2 * dfDeltaY, FP * FP)

IsNoData(poDS, dfElev) ==
    poDS.bGotNoDataValue /\ ARE_REAL_EQUAL(poDS.dfNoDataValue, dfElev)

\* GDALInterpolateAtPoint on band 1 of poDS at raster position
\* (dfXIn, dfYIn), corner convention: the value, or NONE when the position
\* is outside the raster or the kernel meets nodata.  Near the edges the
\* kernel falls back from cubic to bilinear to nearest.
InterpolateNearest(poDS, dfXIn, dfYIn) ==
    LET nX == Floor(dfXIn)
        nY == Floor(dfYIn)
        dfElev == DEMPixelValue(poDS.pszPath, nX, nY)
    IN  IF nX < 0 \/ nY < 0 \/ nX >= poDS.nRasterXSize
           \/ nY >= poDS.nRasterYSize
        THEN NONE
        ELSE IF IsNoData(poDS, dfElev) THEN NONE ELSE dfElev

InterpolateBilinear(poDS, dfXIn, dfYIn) ==
    LET dfX == dfXIn - Half
        dfY == dfYIn - Half
        nX == Floor(dfX)
        nY == Floor(dfY)
        adfElevData == BilinearBlock(poDS, nX, nY)
    IN  IF ~(nX >= 0 /\ nY >= 0 /\ nX + 2 <= poDS.nRasterXSize
             /\ nY + 2 <= poDS.nRasterYSize)
        THEN InterpolateNearest(poDS, dfXIn, dfYIn)
        ELSE IF \E k \in 1..4 : IsNoData(poDS, adfElevData[k]) THEN NONE
        ELSE BilinearValue(adfElevData, dfX - nX * FP, dfY - nY * FP)

InterpolateCubic(poDS, dfXIn, dfYIn) ==
    LET dfX == dfXIn - Half
        dfY == dfYIn - Half
        nX == Floor(dfX)
        nY == Floor(dfY)
    IN  IF ~(nX - 1 >= 0 /\ nY - 1 >= 0 /\ nX + 3 <= poDS.nRasterXSize
             /\ nY + 3 <= poDS.nRasterYSize)
        THEN InterpolateBilinear(poDS, dfXIn, dfYIn)
        ELSE CubicConvolution(poDS, nX - 1, nY - 1, dfX - nX * FP,
                              dfY - nY * FP)

GDALInterpolateAtPoint(poDS, eResample, dfXIn, dfYIn) ==
    IF dfXIn < 0 \/ dfYIn < 0 \/ dfXIn > poDS.nRasterXSize * FP
       \/ dfYIn > poDS.nRasterYSize * FP
    THEN NONE
    ELSE CASE eResample = DRA_NearestNeighbour ->
                InterpolateNearest(poDS, dfXIn, dfYIn)
           [] eResample = DRA_Bilinear ->
                InterpolateBilinear(poDS, dfXIn, dfYIn)
           [] eResample = DRA_CubicSpline ->
                InterpolateCubic(poDS, dfXIn, dfYIn)

\* GDALRPCGetDEMHeight: the DEM value at a raster position, NONE on failure.
GDALRPCGetDEMHeight(psInfo, dfXIn, dfYIn) ==
    GDALInterpolateAtPoint(psInfo.poDS, psInfo.eResampleAlg, dfXIn, dfYIn)

(***************************************************************************)
(* GDALRPCGetHeightAtLongLat: the elevation sampler.  The result tells     *)
(* success (bOK), the height, the raster position written to pdfDEMPixel   *)
(* and pdfDEMLine (0 when never written), the DEM value used, how many     *)
(* raster lookups were made and whether the last of them failed.           *)
(***************************************************************************)
\* the lookup at raster position p
DEMLookupAtRaster(psInfo, p) ==
    [ dfX |-> p.x, dfY |-> p.y,
      dfDEMH |-> GDALRPCGetDEMHeight(psInfo, p.x, p.y) ]

\* one pass from "retry:" to the lookup, at ground position (dfXTemp, dfYTemp)
DEMLookupAt(psInfo, dfXTemp, dfYTemp) ==
    DEMLookupAtRaster(psInfo,
                      GDALApplyGeoTransform(psInfo.adfDEMReverseGeoTransform,
                                            dfXTemp, dfYTemp))

\* WrapRetryApplies with the retry made with a coordinate transformation too
WrapRetryAppliesInAnyFrame(psInfo, dfXIn) ==
    /\ (dfXIn >= 180 * FP \/ dfXIn <= -180 * FP)
    /\ fabs(psInfo.adfDEMGeoTransform[1] - (-180 * FP)) < 1
    /\ fabs(psInfo.adfDEMGeoTransform[1]
            + psInfo.poDS.nRasterXSize * psInfo.adfDEMGeoTransform[2]
            - 180 * FP) < 1
\* whether a failed first lookup is retried with the longitude wrapped
WrapRetryApplies(psInfo, dfXIn) ==
    /\ psInfo.poCT = NULL
    /\ (dfXIn >= 180 * FP \/ dfXIn <= -180 * FP)
    /\ LET dfMinDEMLong == psInfo.adfDEMGeoTransform[1]
           dfMaxDEMLong == psInfo.adfDEMGeoTransform[1]
                           + psInfo.poDS.nRasterXSize
                             * psInfo.adfDEMGeoTransform[2]
       IN  /\ fabs(dfMinDEMLong - (-180 * FP)) < 1
           /\ fabs(dfMaxDEMLong - 180 * FP) < 1

HeightFormula(psInfo, dfVDatumShift, dfDEMH) ==
    dfVDatumShift + (psInfo.dfHeightOffset + FMul(dfDEMH, psInfo.dfHeightScale))

\* DEMValueOrMissing with the missing value ignored
DEMValueOrFailure(psInfo, dfDEMH) == dfDEMH

\* lines 588-626: the value of a lookup dfDEMH (NONE when it failed), the
\* configured missing value in place of a failed one, NONE when the sampler
\* has to report the failure
DEMValueOrMissing(psInfo, dfDEMH) ==
    IF dfDEMH # NONE THEN dfDEMH
    ELSE IF psInfo.bHasDEMMissingValue THEN psInfo.dfDEMMissingValue
    ELSE NONE

\* what the sampler returns after its last lookup gave dfValue (NONE: no
\* value and no missing value to put in its place)
SamplerResult(psInfo, dfVDatumShift, last, dfValue, nLookups) ==
    [ bOK |-> dfValue # NONE,
      dfHeight |-> IF dfValue # NONE
                   THEN HeightFormula(psInfo, dfVDatumShift, dfValue)
                   ELSE 0,
      dfDEMPixel |-> last.dfX, dfDEMLine |-> last.dfY,
      dfDEMH |-> IF dfValue # NONE THEN dfValue ELSE 0,
      dfVDatumShift |-> dfVDatumShift,
      nLookups |-> nLookups,
      bLookupFailed |-> last.dfDEMH = NONE ]

SamplerAfterLookup(psInfo, dfVDatumShift, last, nLookups) ==
    SamplerResult(psInfo, dfVDatumShift, last,
                  DEMValueOrMissing(psInfo, last.dfDEMH), nLookups)

\* the first lookup, and the second at the wrapped longitude when the first
\* failed and the raster spans the globe
SamplerLookup(psInfo, dfXIn, dfYIn, dfVDatumShift, first) ==
    IF first.dfDEMH = NONE /\ WrapRetryApplies(psInfo, dfXIn)
    THEN SamplerAfterLookup(psInfo, dfVDatumShift,
                            DEMLookupAt(psInfo,
                                        IF dfXIn >= 180 * FP
                                        THEN dfXIn - 360 * FP
                                        ELSE dfXIn + 360 * FP,
                                        dfYIn),
                            2)
    ELSE SamplerAfterLookup(psInfo, dfVDatumShift, first, 1)

\* the sampler once the position is in the raster's frame (ct; NULL when
\* the transformation failed)
SamplerOnRaster(psInfo, dfXIn, dfYIn, ct) ==
    IF ct = NULL
    THEN [ bOK |-> FALSE, dfHeight |-> 0, dfDEMPixel |-> 0,
           dfDEMLine |-> 0, dfDEMH |-> 0, dfVDatumShift |-> 0,
           nLookups |-> 0, bLookupFailed |-> FALSE ]
    ELSE SamplerLookup(psInfo, dfXIn, dfYIn,
                       IF psInfo.poCT # NULL /\ psInfo.bApplyDEMVDatumShift
                       THEN -(ct.z) ELSE 0,
                       DEMLookupAt(psInfo, ct.x, ct.y))

GDALRPCGetHeightAtLongLat(psInfo, dfXIn, dfYIn) ==
    IF psInfo.poDS = NULL
    THEN [ bOK |-> TRUE, dfHeight |-> HeightFormula(psInfo, 0, 0),
           dfDEMPixel |-> 0, dfDEMLine |-> 0, dfDEMH |-> 0,
           dfVDatumShift |-> 0, nLookups |-> 0, bLookupFailed |-> FALSE ]
    ELSE SamplerOnRaster(psInfo, dfXIn, dfYIn,
                         IF psInfo.poCT = NULL
                         THEN [ x |-> dfXIn, y |-> dfYIn, z |-> 0 ]
                         ELSE CTTransform(psInfo.poCT, dfXIn, dfYIn))

(***************************************************************************)
(* RPCInverseTransformPoint.  InvStart gives the locals before the loop,   *)
(* InvIterate runs one pass of the loop body, InvRun the whole loop.       *)
(* Besides the code's locals the record keeps what the pass did: nEvals    *)
(* counts the RPCTransformPoint calls, nWarned those that warned, and      *)
(* eStep, bSamplerOK, dfEvalX, dfEvalY, dfEvalHeight, dfError,            *)
(* dfBoostFactor describe the last pass (the line written to the log).     *)
(***************************************************************************)
\* InvMaxIterations with the raster's default of 20 used without a raster
InvMaxIterationsRasterDefault(psInfo) ==
    IF psInfo.nMaxIterations > 0 THEN psInfo.nMaxIterations ELSE 20

InvMaxIterations(psInfo) ==
    IF psInfo.nMaxIterations > 0 THEN psInfo.nMaxIterations
    ELSE IF psInfo.poDS # NULL THEN 20 ELSE 10

InvStart(psInfo, dfPixel, dfLine, dfUserHeight) ==
    LET gt == psInfo.adfPLToLatLongGeoTransform
    IN  [ dfPixel |-> dfPixel, dfLine |-> dfLine,
          dfUserHeight |-> dfUserHeight,
          dfResultX |-> gt[1] + FMul(gt[2], dfPixel) + FMul(gt[3], dfLine),
          dfResultY |-> gt[4] + FMul(gt[5], dfPixel) + FMul(gt[6], dfLine),
          dfPixelDeltaX |-> 0, dfPixelDeltaY |-> 0,
          dfLastResultX |-> 0, dfLastResultY |-> 0,
          dfLastPixelDeltaX |-> 0, dfLastPixelDeltaY |-> 0,
          bLastPixelDeltaValid |-> FALSE,
          nCountConsecutiveErrorBelow2 |-> 0,
          iIter |-> 0,
          status |-> "running",
          nEvals |-> 0, nWarned |-> 0,
          eStep |-> "none", bSamplerOK |-> TRUE,
          dfEvalX |-> 0, dfEvalY |-> 0, dfEvalHeight |-> 0,
          dfError |-> 0, dfBoostFactor |-> FP ]

\* the substitute DEM height of iteration 0 when the sampler failed
InvSnapPosition(psInfo, h) ==
    LET nXSize == psInfo.poDS.nRasterXSize * FP
        nYSize == psInfo.poDS.nRasterYSize * FP
        px1 == IF h.dfDEMPixel >= nXSize THEN nXSize - Half
               ELSE IF h.dfDEMPixel < 0 THEN Half ELSE h.dfDEMPixel
        ln == IF h.dfDEMLine >= nYSize THEN nYSize - Half ELSE h.dfDEMLine
        px2 == IF ~(h.dfDEMLine >= nYSize) /\ px1 < 0 THEN Half ELSE px1
    IN  [ dfDEMPixel |-> px2, dfDEMLine |-> ln ]

\* the raw raster value at the snapped position, else the reference height
InvHeightAtSnap(psInfo, dfDEMH) ==
    IF dfDEMH # NONE THEN dfDEMH ELSE psInfo.dfRefZ

InvSubstituteAt(psInfo, p) ==
    InvHeightAtSnap(psInfo,
                    GDALRPCGetDEMHeight(psInfo, p.dfDEMPixel, p.dfDEMLine))

InvSubstituteHeight(psInfo, h) ==
    IF psInfo.poDS = NULL THEN psInfo.dfRefZ
    ELSE InvSubstituteAt(psInfo, InvSnapPosition(psInfo, h))

\* InvOscillates with the guard applied without a raster too
InvOscillatesAnywhere(psInfo, L, dX, dY) ==
    /\ L.bLastPixelDeltaValid
    /\ Sign(dX) * Sign(L.dfLastPixelDeltaX) < 0
    /\ Sign(dY) * Sign(L.dfLastPixelDeltaY) < 0
InvOscillates(psInfo, L, dX, dY) ==
    /\ psInfo.poDS # NULL
    /\ L.bLastPixelDeltaValid
    /\ Sign(dX) * Sign(L.dfLastPixelDeltaX) < 0
    /\ Sign(dY) * Sign(L.dfLastPixelDeltaY) < 0

\* InvBoostFactor with the boost one pass early
InvBoostFactorAfterFour(psInfo, L, dfError) ==
    IF psInfo.poDS # NULL /\ L.nCountConsecutiveErrorBelow2 >= 4
       /\ dfError < 2 * FP
    THEN 10 * FP ELSE FP
InvBoostFactor(psInfo, L, dfError) ==
    IF psInfo.poDS # NULL /\ L.nCountConsecutiveErrorBelow2 >= 5
       /\ dfError < 2 * FP
    THEN 10 * FP ELSE FP

\* InvConverged with an error equal to the threshold accepted
InvConvergedAtThreshold(psInfo, dfError) ==
    dfError <= psInfo.dfPixErrThreshold

InvConverged(psInfo, dfError) == dfError < psInfo.dfPixErrThreshold

\* the locals after the evaluation of a pass, before the test of the error
InvRecordPass(L, bSamplerOK, dfEvalHeight, bWarned, dX, dY, dfError) ==
    [ L EXCEPT !.dfPixelDeltaX = dX, !.dfPixelDeltaY = dY,
               !.nEvals = @ + 1,
               !.nWarned = @ + (IF bWarned THEN 1 ELSE 0),
               !.bSamplerOK = bSamplerOK,
               !.dfEvalX = L.dfResultX, !.dfEvalY = L.dfResultY,
               !.dfEvalHeight = dfEvalHeight,
               !.dfError = dfError, !.dfBoostFactor = FP ]

\* the estimate averaged with the last one, weighted by the errors
InvAverage(psInfo, L, M, dX, dY) ==
    [ M EXCEPT
        !.dfResultX =
           RoundDiv(fabs(dX) * L.dfLastResultX
                    + fabs(L.dfLastPixelDeltaX) * L.dfResultX,
                    fabs(dX) + fabs(L.dfLastPixelDeltaX)),
        !.dfResultY =
           RoundDiv(fabs(dY) * L.dfLastResultY
                    + fabs(L.dfLastPixelDeltaY) * L.dfResultY,
                    fabs(dY) + fabs(L.dfLastPixelDeltaY)),
        !.bLastPixelDeltaValid = FALSE,
        !.nCountConsecutiveErrorBelow2 = 0,
        !.iIter = @ + 1,
        !.status = IF L.iIter + 1 < InvMaxIterations(psInfo)
                   THEN "running" ELSE "failed",
        !.eStep = "oscillation" ]

\* the estimate moved by the error through the approximate geotransform gt
InvNewton(psInfo, L, M, dX, dY, dfError, dfBoostFactor, gt) ==
    [ M EXCEPT
        !.nCountConsecutiveErrorBelow2 =
            IF dfError < 2 * FP THEN @ + 1 ELSE 0,
        !.dfResultX = L.dfResultX
            - FMul(FMul(dX, gt[2]), dfBoostFactor)
            - FMul(FMul(dY, gt[3]), dfBoostFactor),
        !.dfResultY = L.dfResultY
            - FMul(FMul(dX, gt[5]), dfBoostFactor)
            - FMul(FMul(dY, gt[6]), dfBoostFactor),
        !.dfLastResultX = L.dfResultX,
        !.dfLastResultY = L.dfResultY,
        !.dfLastPixelDeltaX = dX,
        !.dfLastPixelDeltaY = dY,
        !.bLastPixelDeltaValid = TRUE,
        !.iIter = @ + 1,
        !.status = IF L.iIter + 1 < InvMaxIterations(psInfo)
                   THEN "running" ELSE "failed",
        !.eStep = IF dfBoostFactor = FP THEN "newton" ELSE "boost",
        !.dfBoostFactor = dfBoostFactor ]

\* InvDecide with the update applied to the estimate of a converged pass
InvDecideUpdating(psInfo, L, M, dX, dY, dfError) ==
    IF InvConverged(psInfo, dfError)
    THEN [ InvNewton(psInfo, L, M, dX, dY, dfError, FP,
                     psInfo.adfPLToLatLongGeoTransform)
             EXCEPT !.iIter = -1, !.status = "converged",
                    !.eStep = "converged",
                    !.dfLastResultX = L.dfLastResultX,
                    !.dfLastResultY = L.dfLastResultY,
                    !.dfLastPixelDeltaX = L.dfLastPixelDeltaX,
                    !.dfLastPixelDeltaY = L.dfLastPixelDeltaY,
                    !.bLastPixelDeltaValid = L.bLastPixelDeltaValid,
                    !.nCountConsecutiveErrorBelow2 =
                        L.nCountConsecutiveErrorBelow2 ]
    ELSE IF InvOscillates(psInfo, L, dX, dY)
    THEN InvAverage(psInfo, L, M, dX, dY)
    ELSE InvNewton(psInfo, L, M, dX, dY, dfError,
                   InvBoostFactor(psInfo, L, dfError),
                   psInfo.adfPLToLatLongGeoTransform)
\* the test of the error and the update of the estimate
InvDecide(psInfo, L, M, dX, dY, dfError) ==
    IF InvConverged(psInfo, dfError)
    THEN [ M EXCEPT !.iIter = -1, !.status = "converged",
                    !.eStep = "converged" ]
    ELSE IF InvOscillates(psInfo, L, dX, dY)
    THEN InvAverage(psInfo, L, M, dX, dY)
    ELSE InvNewton(psInfo, L, M, dX, dY, dfError,
                   InvBoostFactor(psInfo, L, dfError),
                   psInfo.adfPLToLatLongGeoTransform)

InvCompare(psInfo, L, bSamplerOK, dfEvalHeight, bWarned, dX, dY) ==
    InvDecide(psInfo, L,
              InvRecordPass(L, bSamplerOK, dfEvalHeight, bWarned, dX, dY,
                            Max(Abs(dX), Abs(dY))),
              dX, dY, Max(Abs(dX), Abs(dY)))

\* back is the estimate put through the forward transform
InvBackProject(psInfo, L, bSamplerOK, dfEvalHeight, back) ==
    InvCompare(psInfo, L, bSamplerOK, dfEvalHeight, back.bWarned,
               back.pixel - L.dfPixel, back.line - L.dfLine)

InvAtHeight(psInfo, L, bSamplerOK, dfDEMH) ==
    InvBackProject(psInfo, L, bSamplerOK, L.dfUserHeight + dfDEMH,
                   RPCTransformPoint(psInfo, L.dfResultX, L.dfResultY,
                                     L.dfUserHeight + dfDEMH))

\* InvWithSample with a failed sampling ending the loop in every pass
InvWithSampleFailingAlways(psInfo, L, h) ==
    IF ~h.bOK
    THEN [ L EXCEPT !.status = "failed", !.eStep = "demfail",
                    !.bSamplerOK = FALSE ]
    ELSE InvAtHeight(psInfo, L, h.bOK, h.dfHeight)
\* h is what the sampler returned at the estimate
InvWithSample(psInfo, L, h) ==
    IF ~h.bOK /\ L.iIter # 0
    THEN [ L EXCEPT !.status = "failed", !.eStep = "demfail",
                    !.bSamplerOK = FALSE ]
    ELSE InvAtHeight(psInfo, L, h.bOK,
                     IF h.bOK THEN h.dfHeight
                     ELSE InvSubstituteHeight(psInfo, h))

InvIterate(psInfo, L) ==
    InvWithSample(psInfo, L,
                  GDALRPCGetHeightAtLongLat(psInfo, L.dfResultX, L.dfResultY))

RECURSIVE InvRun(_, _)
InvRun(psInfo, L) ==
    IF L.status # "running" THEN L ELSE InvRun(psInfo, InvIterate(psInfo, L))

\* the locals when the function returns; it returns TRUE, with
\* (dfResultX, dfResultY) written to the caller, iff status is "converged"
RPCInverseTransformPoint(psInfo, dfPixel, dfLine, dfUserHeight) ==
    InvRun(psInfo, InvStart(psInfo, dfPixel, dfLine, dfUserHeight))

(***************************************************************************)
(* GDALRPCTransformWholeLineWithDEM.  The block read by RasterIO is the    *)
(* window win = [nXLeft, nXWidth, nYTop, nYHeight] of the raster; buffer   *)
(* index k holds raster pixel (nXLeft + k % nXWidth, nYTop + k / nXWidth). *)
(* A point's result: its flag, its coordinates after the call, the height  *)
(* handed to RPCTransformPoint (NONE when it was not called), whether that *)
(* call warned (nWarned), and the buffer indices read.                     *)
(***************************************************************************)
DEMBufferAt(psInfo, win, k) ==
    DEMPixelValue(psInfo.poDS.pszPath, win.nXLeft + (k % win.nXWidth),
                  win.nYTop + (k \div win.nXWidth))

WholeLineFail(dfX, dfY, idx) ==
    [ bSuccess |-> FALSE, dfX |-> dfX, dfY |-> dfY, dfHeight |-> NONE,
      nWarned |-> 0, idx |-> idx ]

\* a point the forward transform has mapped to r
ForwardResult(r, dfHeight, idx) ==
    [ bSuccess |-> TRUE, dfX |-> r.pixel, dfY |-> r.line,
      dfHeight |-> dfHeight,
      nWarned |-> IF r.bWarned THEN 1 ELSE 0, idx |-> idx ]

ForwardAtHeight(psInfo, dfX, dfY, dfHeight, idx) ==
    ForwardResult(RPCTransformPoint(psInfo, dfX, dfY, dfHeight), dfHeight, idx)

\* the tail of the loop body: footprint test, then the forward transform
WholeLineFinish(psInfo, dfX, dfY, dfZ_i, dfDEMH, idx) ==
    IF ~RPCIsValidLongLat(psInfo, dfX, dfY)
    THEN WholeLineFail(HUGE_VAL, HUGE_VAL, idx)
    ELSE ForwardAtHeight(psInfo, dfX, dfY,
                         dfZ_i + FMul(psInfo.dfHeightOffset + dfDEMH,
                                      psInfo.dfHeightScale),
                         idx)

WholeLineCubic(psInfo, win, dfX_i, dfY_i, dfZ_i, dfDeltaY) ==
    LET dfX == psInfo.adfDEMReverseGeoTransform[1]
               + FMul(dfX_i, psInfo.adfDEMReverseGeoTransform[2]) - Half
        nX == IntCast(dfX)
        dfDeltaX == dfX - nX * FP
        nXNew == nX - 1
        cells == 0..15
        at == [ c \in cells |->
                  (c \div 4) * win.nXWidth + nXNew - win.nXLeft + (c % 4) ]
        idx == { at[c] : c \in cells }
        elev == [ c \in cells |-> DEMBufferAt(psInfo, win, at[c]) ]
        wgt == [ c \in cells |->
                   IF IsNoData(psInfo.poDS, elev[c]) THEN 0
                   ELSE CubicPixelWeight(c % 4, c \div 4, dfDeltaX, dfDeltaY) ]
        dfSumH == SumOver([ c \in cells |-> elev[c] * wgt[c] ], cells)
        dfSumWeight == SumOver(wgt, cells)
    IN  IF dfSumWeight = 0
        THEN IF psInfo.bHasDEMMissingValue
             THEN WholeLineFinish(psInfo, dfX_i, dfY_i, dfZ_i,
                                  psInfo.dfDEMMissingValue, idx)
             ELSE WholeLineFail(dfX_i, dfY_i, idx)
        ELSE WholeLineFinish(psInfo, dfX_i, dfY_i, dfZ_i,
                             RoundDiv(dfSumH, dfSumWeight), idx)

WholeLineBilinear(psInfo, win, dfX_i, dfY_i, dfZ_i, dfDeltaY) ==
    LET dfX == psInfo.adfDEMReverseGeoTransform[1]
               + FMul(dfX_i, psInfo.adfDEMReverseGeoTransform[2]) - Half
        nX == IntCast(dfX)
        dfDeltaX == dfX - nX * FP
        at == << nX - win.nXLeft, nX - win.nXLeft + 1,
                 win.nXWidth + nX - win.nXLeft,
                 win.nXWidth + nX - win.nXLeft + 1 >>
        idx == { at[k] : k \in 1..4 }
        adfElevData == [ k \in 1..4 |-> DEMBufferAt(psInfo, win, at[k]) ]
        nodata == { k \in 1..4 : IsNoData(psInfo.poDS, adfElevData[k]) }
        valid == (1..4) \ nodata
    IN  IF nodata # {}
        THEN IF valid # {}
             THEN LET k_valid_sample == CHOOSE k \in valid :
                                           \A o \in valid : k <= o
                  IN  WholeLineFinish(psInfo, dfX_i, dfY_i, dfZ_i,
                                      adfElevData[k_valid_sample], idx)
             ELSE IF psInfo.bHasDEMMissingValue
             THEN WholeLineFinish(psInfo, dfX_i, dfY_i, dfZ_i,
                                  psInfo.dfDEMMissingValue, idx)
             ELSE WholeLineFail(HUGE_VAL, HUGE_VAL, idx)
        ELSE WholeLineFinish(psInfo, dfX_i, dfY_i, dfZ_i,
                             BilinearValue(adfElevData, dfDeltaX, dfDeltaY),
                             idx)

WholeLineNearest(psInfo, win, dfX_i, dfY_i, dfZ_i) ==
    LET dfX == psInfo.adfDEMReverseGeoTransform[1]
               + FMul(dfX_i, psInfo.adfDEMReverseGeoTransform[2])
        nX == IntCast(dfX)
        idx == { nX - win.nXLeft }
        dfDEMH == DEMBufferAt(psInfo, win, nX - win.nXLeft)
    IN  IF IsNoData(psInfo.poDS, dfDEMH)
        THEN IF psInfo.bHasDEMMissingValue
             THEN WholeLineFinish(psInfo, dfX_i, dfY_i, dfZ_i,
                                  psInfo.dfDEMMissingValue, idx)
             ELSE WholeLineFail(HUGE_VAL, HUGE_VAL, idx)
        ELSE WholeLineFinish(psInfo, dfX_i, dfY_i, dfZ_i, dfDEMH, idx)

\* one pass of the loop over the points
WholeLinePoint(psInfo, win, dfX_i, dfY_i, dfZ_i, dfDeltaY) ==
    IF dfX_i = HUGE_VAL THEN WholeLineFail(dfX_i, dfY_i, {})
    ELSE CASE psInfo.eResampleAlg = DRA_CubicSpline ->
                WholeLineCubic(psInfo, win, dfX_i, dfY_i, dfZ_i, dfDeltaY)
           [] psInfo.eResampleAlg = DRA_Bilinear ->
                WholeLineBilinear(psInfo, win, dfX_i, dfY_i, dfZ_i, dfDeltaY)
           [] OTHER ->
                WholeLineNearest(psInfo, win, dfX_i, dfY_i, dfZ_i)

\* CallResult with the return value stuck at TRUE
CallResultReturnsTrue(bRet, pts, bWholeLine) ==
    [ bRet |-> "TRUE",
      padfX |-> [ i \in DOMAIN pts |-> pts[i].dfX ],
      padfY |-> [ i \in DOMAIN pts |-> pts[i].dfY ],
      panSuccess |-> [ i \in DOMAIN pts |->
                         IF pts[i].bSuccess THEN "TRUE" ELSE "FALSE" ],
      nWarned |-> 0,
      bWholeLine |-> bWholeLine,
      pts |-> pts ]

\* The result of a transform call: the return value, the arrays afterwards,
\* the per-point records and the number of forward evaluations that warned.
CallResult(bRet, pts, bWholeLine) ==
    [ bRet |-> IF bRet THEN "TRUE" ELSE "FALSE",
      padfX |-> [ i \in DOMAIN pts |-> pts[i].dfX ],
      padfY |-> [ i \in DOMAIN pts |-> pts[i].dfY ],
      panSuccess |-> [ i \in DOMAIN pts |->
                         IF pts[i].bSuccess THEN "TRUE" ELSE "FALSE" ],
      nWarned |-> SumOver([ i \in DOMAIN pts |-> pts[i].nWarned ],
                          DOMAIN pts),
      bWholeLine |-> bWholeLine,
      pts |-> pts ]

\* CallResultOfPoints for a loop that leaves at its first failing point:
\* the points after it are failed without being looked at
CallResultStopping(pts, bWholeLine) ==
    CallResult(\A i \in DOMAIN pts : pts[i].bSuccess,
               [ i \in DOMAIN pts |->
                   IF \E j \in 1..(i - 1) : ~pts[j].bSuccess
                   THEN WholeLineFail(HUGE_VAL, HUGE_VAL, {})
                   ELSE pts[i] ],
               bWholeLine)

\* the call returns TRUE iff every point succeeded
CallResultOfPoints(pts, bWholeLine) ==
    CallResult(\A i \in DOMAIN pts : pts[i].bSuccess, pts, bWholeLine)

GDALRPCTransformWholeLineWithDEM(psInfo, c, win) ==
    IF c.bRasterIOFails
    THEN CallResult(FALSE,
                    Array([ i \in 1..c.nPointCount |->
                              WholeLineFail(c.padfX[i], c.padfY[i], {}) ]),
                    TRUE)
    ELSE
    LET dfY == psInfo.adfDEMReverseGeoTransform[4]
               + FMul(c.padfY[1], psInfo.adfDEMReverseGeoTransform[6]) - Half
        nY == IntCast(dfY)
        dfDeltaY == dfY - nY * FP
    IN  CallResultOfPoints(
            Array([ i \in 1..c.nPointCount |->
                      WholeLinePoint(psInfo, win, c.padfX[i], c.padfY[i],
                                     IF c.bHasZ THEN c.padfZ[i] ELSE 0,
                                     dfDeltaY) ]),
            TRUE)

(***************************************************************************)
(* GDALRPCTransform.  A call c gives bDstToSrc, nPointCount, the arrays    *)
(* padfX, padfY, padfZ (bHasZ: padfZ is not null), and the environment of  *)
(* the call: bDEMOptim is the GDAL_RPC_DEM_OPTIM setting, bRasterIOFails   *)
(* whether the block read of the optimizer fails.                          *)
(***************************************************************************)
MinWholeLinePoints == 10

SeqMin(f, n) == CHOOSE v \in { f[i] : i \in 1..n } :
                    \A i \in 1..n : v <= f[i]
SeqMax(f, n) == CHOOSE v \in { f[i] : i \in 1..n } :
                    \A i \in 1..n : v >= f[i]

\* the first test of the optimizer: lines 1838-1845
WholeLineQuickTest(psInfo, c) ==
    /\ c.nPointCount >= MinWholeLinePoints
    /\ psInfo.poDS # NULL
    /\ psInfo.poCT = NULL
    /\ c.padfY[1] = c.padfY[c.nPointCount]
    /\ c.padfY[1] = c.padfY[(c.nPointCount \div 2) + 1]
    /\ psInfo.adfDEMReverseGeoTransform[2] > 0
    /\ psInfo.adfDEMReverseGeoTransform[3] = 0
    /\ psInfo.adfDEMReverseGeoTransform[5] = 0
    /\ c.bDEMOptim

\* WholeLineWindow without the extra column and row of the bilinear kernel
\* and the margins of the cubic one
WholeLineWindowOfPixels(psInfo, c) ==
    LET dfMinX == SeqMin(c.padfX, c.nPointCount)
        dfMaxX == SeqMax(c.padfX, c.nPointCount)
        p1 == GDALApplyGeoTransform(psInfo.adfDEMReverseGeoTransform,
                                    dfMinX, c.padfY[1])
        p2 == GDALApplyGeoTransform(psInfo.adfDEMReverseGeoTransform,
                                    dfMaxX, c.padfY[1])
        shift == IF psInfo.eResampleAlg # DRA_NearestNeighbour
                 THEN Half ELSE 0
    IN  [ nXLeft |-> Floor(p1.x - shift),
          nXWidth |-> Floor(p2.x - shift) - Floor(p1.x - shift) + 1,
          nYTop |-> Floor(p1.y - shift),
          nYHeight |-> IF psInfo.eResampleAlg = DRA_CubicSpline THEN 4
                       ELSE IF psInfo.eResampleAlg = DRA_Bilinear THEN 2
                       ELSE 1 ]
\* the window of the raster the optimizer reads
WholeLineWindow(psInfo, c) ==
    LET dfMinX == SeqMin(c.padfX, c.nPointCount)
        dfMaxX == SeqMax(c.padfX, c.nPointCount)
        p1 == GDALApplyGeoTransform(psInfo.adfDEMReverseGeoTransform,
                                    dfMinX, c.padfY[1])
        p2 == GDALApplyGeoTransform(psInfo.adfDEMReverseGeoTransform,
                                    dfMaxX, c.padfY[1])
        shift == IF psInfo.eResampleAlg # DRA_NearestNeighbour
                 THEN Half ELSE 0
        nXLeft == Floor(p1.x - shift)
        nXRight == Floor(p2.x - shift)
        nXWidth == nXRight - nXLeft + 1
        nYTop == Floor(p1.y - shift)
    IN  CASE psInfo.eResampleAlg = DRA_CubicSpline ->
               [ nXLeft |-> nXLeft - 1, nXWidth |-> nXWidth + 3,
                 nYTop |-> nYTop - 1, nYHeight |-> 4 ]
          [] psInfo.eResampleAlg = DRA_Bilinear ->
               [ nXLeft |-> nXLeft, nXWidth |-> nXWidth + 1,
                 nYTop |-> nYTop, nYHeight |-> 2 ]
          [] OTHER ->
               [ nXLeft |-> nXLeft, nXWidth |-> nXWidth,
                 nYTop |-> nYTop, nYHeight |-> 1 ]

WindowInRaster(psInfo, win) ==
    /\ win.nXLeft >= 0
    /\ win.nXLeft + win.nXWidth <= psInfo.poDS.nRasterXSize
    /\ win.nYTop >= 0
    /\ win.nYTop + win.nYHeight <= psInfo.poDS.nRasterYSize

\* UsesWholeLine with the latitudes compared at the first, middle and last
\* point only
UsesWholeLineSampled(psInfo, c) ==
    /\ WholeLineQuickTest(psInfo, c)
    /\ WindowInRaster(psInfo, WholeLineWindow(psInfo, c))
\* whether the call is handed to GDALRPCTransformWholeLineWithDEM
UsesWholeLine(psInfo, c) ==
    /\ WholeLineQuickTest(psInfo, c)
    /\ \A i \in 2..c.nPointCount : c.padfY[i] = c.padfY[1]
    /\ WindowInRaster(psInfo, WholeLineWindow(psInfo, c))

\* h is what the sampler returned at the point
ForwardWithSample(psInfo, dfX_i, dfY_i, dfZ_i, h) ==
    IF ~h.bOK THEN WholeLineFail(HUGE_VAL, HUGE_VAL, {})
    ELSE ForwardAtHeight(psInfo, dfX_i, dfY_i, dfZ_i + h.dfHeight, {})

\* one pass of the ground-to-image loop, lines 1923-1948
ForwardPoint(psInfo, dfX_i, dfY_i, dfZ_i) ==
    IF ~RPCIsValidLongLat(psInfo, dfX_i, dfY_i)
    THEN WholeLineFail(HUGE_VAL, HUGE_VAL, {})
    ELSE ForwardWithSample(psInfo, dfX_i, dfY_i, dfZ_i,
                           GDALRPCGetHeightAtLongLat(psInfo, dfX_i, dfY_i))

\* which coordinates the footprint test of the inverse loop is given
InverseFootprintProbe(dfX_i, dfY_i, dfResultX, dfResultY) ==
    [ x |-> dfX_i, y |-> dfY_i ]

\* L is the solver's locals at its return, probe the footprint's test point
InverseOutcome(psInfo, L, probe) ==
    IF L.status # "converged"
    THEN [ bSuccess |-> FALSE, dfX |-> HUGE_VAL, dfY |-> HUGE_VAL,
           dfHeight |-> NONE, nWarned |-> L.nWarned, idx |-> {} ]
    ELSE IF ~RPCIsValidLongLat(psInfo, probe.x, probe.y)
    THEN [ bSuccess |-> FALSE, dfX |-> HUGE_VAL, dfY |-> HUGE_VAL,
           dfHeight |-> NONE, nWarned |-> L.nWarned, idx |-> {} ]
    ELSE [ bSuccess |-> TRUE, dfX |-> L.dfResultX, dfY |-> L.dfResultY,
           dfHeight |-> NONE, nWarned |-> L.nWarned, idx |-> {} ]

InverseWithResult(psInfo, dfX_i, dfY_i, L) ==
    InverseOutcome(psInfo, L,
                   InverseFootprintProbe(dfX_i, dfY_i, L.dfResultX,
                                         L.dfResultY))

\* one pass of the image-to-ground loop, lines 1968-1995
InversePoint(psInfo, dfX_i, dfY_i, dfZ_i) ==
    InverseWithResult(psInfo, dfX_i, dfY_i,
                      RPCInverseTransformPoint(psInfo, dfX_i, dfY_i, dfZ_i))

Xor(a, b) == (a /\ ~b) \/ (~a /\ b)

\* GDALRPCTransform refusing a call without a Z array in both directions
GDALRPCTransformNeedingZ(psInfo, c) ==
    IF ~c.bHasZ
    THEN CallResult(FALSE,
                    Array([ i \in 1..c.nPointCount |->
                              WholeLineFail(c.padfX[i], c.padfY[i], {}) ]),
                    FALSE)
    ELSE IF Xor(c.bDstToSrc, psInfo.bReversed)
    THEN IF UsesWholeLine(psInfo, c)
         THEN GDALRPCTransformWholeLineWithDEM(psInfo, c,
                                               WholeLineWindow(psInfo, c))
         ELSE CallResultOfPoints(
                  Array([ i \in 1..c.nPointCount |->
                            ForwardPoint(psInfo, c.padfX[i], c.padfY[i],
                                         c.padfZ[i]) ]),
                  FALSE)
    ELSE CallResultOfPoints(
             Array([ i \in 1..c.nPointCount |->
                       InversePoint(psInfo, c.padfX[i], c.padfY[i],
                                    c.padfZ[i]) ]),
             FALSE)
GDALRPCTransform(psInfo, c) ==
    IF Xor(c.bDstToSrc, psInfo.bReversed)
    THEN IF UsesWholeLine(psInfo, c)
         THEN GDALRPCTransformWholeLineWithDEM(psInfo, c,
                                               WholeLineWindow(psInfo, c))
         ELSE CallResultOfPoints(
                  Array([ i \in 1..c.nPointCount |->
                            ForwardPoint(psInfo, c.padfX[i], c.padfY[i],
                                         IF c.bHasZ THEN c.padfZ[i] ELSE 0) ]),
                  FALSE)
    ELSE IF ~c.bHasZ
    THEN CallResult(FALSE,
                    Array([ i \in 1..c.nPointCount |->
                              WholeLineFail(c.padfX[i], c.padfY[i], {}) ]),
                    FALSE)
    ELSE CallResultOfPoints(
             Array([ i \in 1..c.nPointCount |->
                       InversePoint(psInfo, c.padfX[i], c.padfY[i],
                                    c.padfZ[i]) ]),
             FALSE)

(***************************************************************************)
(* Option strings.  A numeric option is a sequence of characters, read by  *)
(* CPLAtof or atoi as strtod and strtol read it: an optional sign, digits, *)
(* for CPLAtof a fraction, stopping at the first other character.          *)
(***************************************************************************)
DigitChars == << "0", "1", "2", "3", "4", "5", "6", "7", "8", "9" >>
IsDigit(ch) == \E d \in 1..10 : DigitChars[d] = ch
DigitValue(ch) == (CHOOSE d \in 1..10 : DigitChars[d] = ch) - 1

RECURSIVE ParseDigits(_, _, _)
\* the number read from the digits of str at position i on, after acc, and
\* the position after them
ParseDigits(str, i, acc) ==
    IF i <= Len(str) /\ IsDigit(str[i])
    THEN ParseDigits(str, i + 1, 10 * acc + DigitValue(str[i]))
    ELSE [ value |-> acc, next |-> i ]

ParseSign(str) ==
    IF Len(str) >= 1 /\ str[1] = "-" THEN [ sign |-> -1, next |-> 2 ]
    ELSE IF Len(str) >= 1 /\ str[1] = "+" THEN [ sign |-> 1, next |-> 2 ]
    ELSE [ sign |-> 1, next |-> 1 ]

atoi(str) ==
    LET sg == ParseSign(str)
    IN  sg.sign * ParseDigits(str, sg.next, 0).value

CPLAtof(str) ==
    LET sg == ParseSign(str)
        whole == ParseDigits(str, sg.next, 0)
        bFraction == whole.next <= Len(str) /\ str[whole.next] = "."
        d1 == IF bFraction /\ whole.next + 1 <= Len(str)
                 /\ IsDigit(str[whole.next + 1])
              THEN DigitValue(str[whole.next + 1]) ELSE 0
        d2 == IF bFraction /\ whole.next + 2 <= Len(str)
                 /\ IsDigit(str[whole.next + 1])
                 /\ IsDigit(str[whole.next + 2])
              THEN DigitValue(str[whole.next + 2]) ELSE 0
    IN  sg.sign * (whole.value * FP + RoundDiv((10 * d1 + d2) * FP, 100))

\* papszOptions is a function from the names given to their values
CSLFetchNameValue(papszOptions, pszName) == papszOptions[pszName]
HasOption(papszOptions, pszName) == pszName \in DOMAIN papszOptions

CPLTestBool(pszValue) ==
    pszValue \notin {"NO", "FALSE", "OFF", "0", "no", "false", "off"}

\* The footprints OGRGeometryFactory can build: by the WKT or GeoJSON text,
\* the rectangle it describes; anything else is no geometry.
FootprintGeometry(pszFootprint) ==
    CASE pszFootprint = "POLYGON((9.5 4,10.8 4,10.8 6.5,9.5 6.5,9.5 4))" ->
            [ minX |-> 9 * FP + Half, maxX |-> 10 * FP + 8,
              minY |-> 4 * FP, maxY |-> 6 * FP + Half ]
      [] pszFootprint = "{\"type\":\"Polygon\",\"coordinates\":[[[9.5,4],[10.8,4],[10.8,6.5],[9.5,6.5],[9.5,4]]]}" ->
            [ minX |-> 9 * FP + Half, maxX |-> 10 * FP + 8,
              minY |-> 4 * FP, maxY |-> 6 * FP + Half ]
      [] OTHER -> NULL

(***************************************************************************)
(* GDALRPCOpenDEM: opens the raster of pszDEMPath and reconciles its       *)
(* reference frame with WGS84.                                             *)
(***************************************************************************)
NOSTRING == "(null)"

IsCompound(pszSRS) == pszSRS = "EGM96"
StripVertical(pszSRS) == IF pszSRS = "EGM96" THEN "WGS84" ELSE pszSRS
\* OGRSpatialReference::IsSame against WGS84 (against EPSG:4979 for a
\* compound frame, which is never the same)
IsSameAsWGS84(pszSRS) == pszSRS = "WGS84"

RPCReferenceLongLat(sRPC) ==
    IF sRPC.dfMIN_LONG # -180 * FP \/ sRPC.dfMAX_LONG # 180 * FP
    THEN [ x |-> FMul(sRPC.dfMIN_LONG + sRPC.dfMAX_LONG, Half),
           y |-> FMul(sRPC.dfMIN_LAT + sRPC.dfMAX_LAT, Half) ]
    ELSE [ x |-> sRPC.dfLONG_OFF, y |-> sRPC.dfLAT_OFF ]

\* the empiric test of lines 1724-1771: the transformation moves none of
\* the six probe points
CTIsNop(poCT, sRPC) ==
    LET ref == RPCReferenceLongLat(sRPC)
        probes == { [ x |-> -179 * FP, y |-> 89 * FP ],
                    [ x |-> 179 * FP, y |-> 89 * FP ],
                    [ x |-> 179 * FP, y |-> -89 * FP ],
                    [ x |-> -179 * FP, y |-> -89 * FP ],
                    [ x |-> 0, y |-> 0 ], ref }
    IN  \A p \in probes :
            LET r == CTTransform(poCT, p.x, p.y)
            IN  r # NULL /\ r.x = p.x /\ r.y = p.y

GDALRPCOpenDEM(psInfo) ==
    LET poDS == GDALOpen(psInfo.pszDEMPath)
    IN  IF poDS = NULL \/ poDS.nRasterCount < 1
        THEN [ bIsValid |-> FALSE,
               psInfo |-> [ psInfo EXCEPT
                              !.poDS = poDS,
                              !.heap.acquired =
                                  IF poDS # NULL THEN @ \o << "poDS" >>
                                  ELSE @ ] ]
        ELSE
        LET pszSrc == IF psInfo.pszDEMSRS # NOSTRING THEN psInfo.pszDEMSRS
                      ELSE poDS.pszSRS
            pszSRS == IF ~psInfo.bApplyDEMVDatumShift
                      THEN StripVertical(pszSrc) ELSE pszSrc
            poCT1 == IF pszSrc = NOSTRING \/ IsSameAsWGS84(pszSRS) THEN NULL
                     ELSE OGRCreateCoordinateTransformation(pszSRS)
            poCT == IF poCT1 # NULL /\ ~IsCompound(pszSRS)
                       /\ CTIsNop(poCT1, psInfo.sRPC)
                    THEN NULL ELSE poCT1
            inverse == GDALInvGeoTransform(poDS.adfGeoTransform)
            bIsValid == poDS.bHasGeoTransform /\ inverse # << >>
        IN  [ bIsValid |-> bIsValid,
              psInfo |-> [ psInfo EXCEPT
                             !.poDS = poDS, !.poCT = poCT,
                             !.heap.acquired =
                                 @ \o << "poDS" >>
                                   \o (IF pszSrc # NOSTRING
                                       THEN << "poDSSpaRef", "poWGSSpaRef" >>
                                       ELSE << >>)
                                   \o (IF poCT1 # NULL THEN << "poCT" >>
                                       ELSE << >>),
                             !.heap.released =
                                 @ \o (IF poCT1 # NULL /\ poCT = NULL
                                       THEN << "poCT" >> ELSE << >>)
                                   \o (IF pszSrc # NOSTRING
                                       THEN << "poWGSSpaRef", "poDSSpaRef" >>
                                       ELSE << >>),
                             !.adfDEMGeoTransform =
                                 IF poDS.bHasGeoTransform
                                 THEN poDS.adfGeoTransform ELSE @,
                             !.adfDEMReverseGeoTransform =
                                 IF bIsValid THEN inverse ELSE @ ] ]

(***************************************************************************)
(* GDALCreateRPCTransformerV2.  The result is the transformer, or NULL     *)
(* when construction fails, and the number of forward evaluations that     *)
(* warned on the way.  bHasGEOS is OGRHasPreparedGeometrySupport().        *)
(***************************************************************************)
dfLLDelta == 1

\* PixErrThreshold with a positive argument preferred to the option
PixErrThresholdArgumentFirst(dfPixErrThreshold, papszOptions) ==
    IF dfPixErrThreshold > 0 THEN dfPixErrThreshold
    ELSE IF HasOption(papszOptions, "RPC_PIXEL_ERROR_THRESHOLD")
    THEN CPLAtof(CSLFetchNameValue(papszOptions, "RPC_PIXEL_ERROR_THRESHOLD"))
    ELSE DEFAULT_PIX_ERR_THRESHOLD

\* PixErrThreshold with a zero or negative option replaced by the default
PixErrThresholdOptionDefaulted(dfPixErrThreshold, papszOptions) ==
    LET dfOption ==
            IF HasOption(papszOptions, "RPC_PIXEL_ERROR_THRESHOLD")
            THEN CPLAtof(CSLFetchNameValue(papszOptions,
                                           "RPC_PIXEL_ERROR_THRESHOLD"))
            ELSE dfPixErrThreshold
    IN  IF dfOption > 0 THEN dfOption ELSE DEFAULT_PIX_ERR_THRESHOLD

PixErrThreshold(dfPixErrThreshold, papszOptions) ==
    IF HasOption(papszOptions, "RPC_PIXEL_ERROR_THRESHOLD")
    THEN CPLAtof(CSLFetchNameValue(papszOptions, "RPC_PIXEL_ERROR_THRESHOLD"))
    ELSE IF dfPixErrThreshold > 0 THEN dfPixErrThreshold
    ELSE DEFAULT_PIX_ERR_THRESHOLD

DEMInterpolation(papszOptions) ==
    LET pszDEMInterpolation ==
            IF HasOption(papszOptions, "RPC_DEMINTERPOLATION")
            THEN CSLFetchNameValue(papszOptions, "RPC_DEMINTERPOLATION")
            ELSE "bilinear"
    IN  IF pszDEMInterpolation \in {"near", "NEAR"}
        THEN DRA_NearestNeighbour
        ELSE IF pszDEMInterpolation \in {"bilinear", "BILINEAR"}
        THEN DRA_Bilinear
        ELSE IF pszDEMInterpolation \in {"cubic", "CUBIC"}
        THEN DRA_CubicSpline
        ELSE DRA_Bilinear

FootprintPreparedGeom(papszOptions, bHasGEOS) ==
    IF HasOption(papszOptions, "RPC_FOOTPRINT") /\ bHasGEOS
    THEN FootprintGeometry(CSLFetchNameValue(papszOptions, "RPC_FOOTPRINT"))
    ELSE NULL

\* GDALDestroyRPCTransformer without the GDALClose of the dataset
DestroyKeepingDataset(psInfo) ==
    [ psInfo.heap EXCEPT
        !.released =
            @ \o (IF psInfo.pszDEMPath # NOSTRING THEN << "pszDEMPath" >>
                  ELSE << >>)
              \o (IF psInfo.pszDEMSRS # NOSTRING THEN << "pszDEMSRS" >>
                  ELSE << >>)
              \o (IF psInfo.poCT # NULL THEN << "poCT" >> ELSE << >>)
              \o (IF psInfo.pszRPCFootprint # NOSTRING
                  THEN << "pszRPCFootprint" >> ELSE << >>)
              \o (IF FootprintGeometry(psInfo.pszRPCFootprint) # NULL
                  THEN << "poRPCFootprintGeom" >> ELSE << >>)
              \o (IF psInfo.poRPCFootprintPreparedGeom # NULL
                  THEN << "poRPCFootprintPreparedGeom" >> ELSE << >>)
              \o << "psTransform" >> ]

\* What lines 836-981 allocate, in order: the structure itself and a copy
\* or an object per option given.  (RPC_INVERSE_LOG is a configuration
\* option the model never sets.)
OptionAllocations(papszOptions, bHasGEOS) ==
    << "psTransform" >>
    \o (IF HasOption(papszOptions, "RPC_DEM") THEN << "pszDEMPath" >>
        ELSE << >>)
    \o (IF HasOption(papszOptions, "RPC_DEM_SRS") THEN << "pszDEMSRS" >>
        ELSE << >>)
    \o (IF HasOption(papszOptions, "RPC_FOOTPRINT")
        THEN << "pszRPCFootprint" >> ELSE << >>)
    \o (IF HasOption(papszOptions, "RPC_FOOTPRINT")
           /\ FootprintGeometry(CSLFetchNameValue(papszOptions,
                                                  "RPC_FOOTPRINT")) # NULL
        THEN << "poRPCFootprintGeom" >> ELSE << >>)
    \o (IF FootprintPreparedGeom(papszOptions, bHasGEOS) # NULL
        THEN << "poRPCFootprintPreparedGeom" >> ELSE << >>)

\* GDALDestroyRPCTransformer: the field heap of the structure after the
\* call released what the structure's pointers hold.  CPLFree, delete and
\* OGRDestroyPreparedGeometry do nothing for a null pointer.
GDALDestroyRPCTransformer(psInfo) ==
    [ psInfo.heap EXCEPT
        !.released =
            @ \o (IF psInfo.pszDEMPath # NOSTRING THEN << "pszDEMPath" >>
                  ELSE << >>)
              \o (IF psInfo.pszDEMSRS # NOSTRING THEN << "pszDEMSRS" >>
                  ELSE << >>)
              \o (IF psInfo.poDS # NULL THEN << "poDS" >> ELSE << >>)
              \o (IF psInfo.poCT # NULL THEN << "poCT" >> ELSE << >>)
              \o (IF psInfo.pszRPCFootprint # NOSTRING
                  THEN << "pszRPCFootprint" >> ELSE << >>)
              \o (IF FootprintGeometry(psInfo.pszRPCFootprint) # NULL
                  THEN << "poRPCFootprintGeom" >> ELSE << >>)
              \o (IF psInfo.poRPCFootprintPreparedGeom # NULL
                  THEN << "poRPCFootprintPreparedGeom" >> ELSE << >>)
              \o << "psTransform" >> ]

\* the structure after the options are read, before the raster is opened
InitialTransformInfo(psRPCInfo, bReversed, dfPixErrThreshold, papszOptions, bHasGEOS) ==
    [ sRPC |-> psRPCInfo,
      bReversed |-> bReversed,
      dfPixErrThreshold |-> PixErrThreshold(dfPixErrThreshold, papszOptions),
      dfHeightOffset |->
          IF HasOption(papszOptions, "RPC_HEIGHT")
          THEN CPLAtof(CSLFetchNameValue(papszOptions, "RPC_HEIGHT")) ELSE 0,
      dfHeightScale |->
          IF HasOption(papszOptions, "RPC_HEIGHT_SCALE")
          THEN CPLAtof(CSLFetchNameValue(papszOptions, "RPC_HEIGHT_SCALE"))
          ELSE FP,
      pszDEMPath |->
          IF HasOption(papszOptions, "RPC_DEM")
          THEN CSLFetchNameValue(papszOptions, "RPC_DEM") ELSE NOSTRING,
      eResampleAlg |-> DEMInterpolation(papszOptions),
      bHasDEMMissingValue |-> HasOption(papszOptions, "RPC_DEM_MISSING_VALUE"),
      dfDEMMissingValue |->
          IF HasOption(papszOptions, "RPC_DEM_MISSING_VALUE")
          THEN CPLAtof(CSLFetchNameValue(papszOptions,
                                         "RPC_DEM_MISSING_VALUE"))
          ELSE 0,
      pszDEMSRS |->
          IF HasOption(papszOptions, "RPC_DEM_SRS")
          THEN CSLFetchNameValue(papszOptions, "RPC_DEM_SRS") ELSE NOSTRING,
      bApplyDEMVDatumShift |->
          IF HasOption(papszOptions, "RPC_DEM_APPLY_VDATUM_SHIFT")
          THEN CPLTestBool(CSLFetchNameValue(papszOptions,
                                             "RPC_DEM_APPLY_VDATUM_SHIFT"))
          ELSE TRUE,
      nMaxIterations |->
          IF HasOption(papszOptions, "RPC_MAX_ITERATIONS")
          THEN atoi(CSLFetchNameValue(papszOptions, "RPC_MAX_ITERATIONS"))
          ELSE 0,
      pszRPCFootprint |->
          IF HasOption(papszOptions, "RPC_FOOTPRINT")
          THEN CSLFetchNameValue(papszOptions, "RPC_FOOTPRINT") ELSE NOSTRING,
      poRPCFootprintPreparedGeom |->
          FootprintPreparedGeom(papszOptions, bHasGEOS),
      poDS |-> NULL,
      poCT |-> NULL,
      adfDEMGeoTransform |-> << 0, 0, 0, 0, 0, 0 >>,
      adfDEMReverseGeoTransform |-> << 0, 0, 0, 0, 0, 0 >>,
      adfPLToLatLongGeoTransform |-> << 0, 0, 0, 0, 0, 0 >>,
      dfRefZ |-> 0,
      heap |-> [ acquired |-> OptionAllocations(papszOptions, bHasGEOS),
                 released |-> << >> ] ]

\* the reference point's pixel and line: of the transform r through the
\* raster when that worked, else of plain, the transform at height zero
ReferenceChoice(dfRefLong, dfRefLat, r, bOK, plain) ==
    [ dfRefLong |-> dfRefLong, dfRefLat |-> dfRefLat,
      dfRefPixel |-> IF bOK THEN r.padfX[1] ELSE plain.pixel,
      dfRefLine |-> IF bOK THEN r.padfY[1] ELSE plain.line,
      nWarned |-> r.nWarned + (IF ~bOK /\ plain.bWarned THEN 1 ELSE 0) ]

ReferenceOutcome(psInfo, dfRefLong, dfRefLat, r) ==
    ReferenceChoice(dfRefLong, dfRefLat, r,
                    r.bRet = "TRUE" /\ r.panSuccess[1] = "TRUE",
                    RPCTransformPoint(psInfo, dfRefLong, dfRefLat, 0))

\* lines 1010-1025 and 1037-1052: the pixel and line of a reference point,
\* through the raster when that works, else at height zero
ReferencePixelLine(psInfo, dfRefLong, dfRefLat) ==
    ReferenceOutcome(psInfo, dfRefLong, dfRefLat,
        GDALRPCTransform(psInfo,
            [ bDstToSrc |-> ~psInfo.bReversed, nPointCount |-> 1,
              padfX |-> << dfRefLong >>, padfY |-> << dfRefLat >>,
              padfZ |-> << 0 >>, bHasZ |-> TRUE,
              bDEMOptim |-> TRUE, bRasterIOFails |-> FALSE ]))

ReferenceWithWarnings(second, nWarned) ==
    [ second EXCEPT !.nWarned = @ + nWarned ]

\* the centre of the bounds when it maps into the image, else the offsets
ReferenceRetry(psInfo, first) ==
    IF first.dfRefPixel < 0 \/ first.dfRefLine < 0
       \/ first.dfRefPixel > 100000 * FP \/ first.dfRefLine > 100000 * FP
    THEN ReferenceWithWarnings(
             ReferencePixelLine(psInfo, psInfo.sRPC.dfLONG_OFF,
                                psInfo.sRPC.dfLAT_OFF),
             first.nWarned)
    ELSE first

ReferencePoint(psInfo) ==
    ReferenceRetry(psInfo,
        IF psInfo.sRPC.dfMIN_LONG # -180 * FP
           \/ psInfo.sRPC.dfMAX_LONG # 180 * FP
        THEN ReferencePixelLine(psInfo,
                 FMul(psInfo.sRPC.dfMIN_LONG + psInfo.sRPC.dfMAX_LONG, Half),
                 FMul(psInfo.sRPC.dfMIN_LAT + psInfo.sRPC.dfMAX_LAT, Half))
        ELSE [ dfRefLong |-> 0, dfRefLat |-> 0, dfRefPixel |-> -FP,
               dfRefLine |-> -FP, nWarned |-> 0 ])

\* the transformer with the inverse of the approximate geotransform, NULL
\* when that has none
TransformerWithInverse(T2, inverse, nWarned) ==
    IF inverse = << >>
    THEN [ psTransform |-> NULL, nWarned |-> nWarned,
           heap |-> GDALDestroyRPCTransformer(T2) ]
    ELSE [ psTransform |->
               [ T2 EXCEPT !.adfPLToLatLongGeoTransform = inverse ],
           nWarned |-> nWarned, heap |-> T2.heap ]

TransformerFromGradient(T2, ref, gt2, gt5, gt3, gt6, nWarned) ==
    TransformerWithInverse(
        T2,
        GDALInvGeoTransform(
            << ref.dfRefPixel - FMul(gt2, ref.dfRefLong)
                              - FMul(gt3, ref.dfRefLat),
               gt2, gt3,
               ref.dfRefLine - FMul(gt5, ref.dfRefLong)
                             - FMul(gt6, ref.dfRefLat),
               gt5, gt6 >>),
        nWarned)

\* dLong and dLat are the transforms one step east and north of ref
TransformerFromSteps(T2, ref, dLong, dLat) ==
    TransformerFromGradient(
        T2, ref,
        FDiv(dLong.pixel - ref.dfRefPixel, dfLLDelta),
        FDiv(dLong.line - ref.dfRefLine, dfLLDelta),
        FDiv(dLat.pixel - ref.dfRefPixel, dfLLDelta),
        FDiv(dLat.line - ref.dfRefLine, dfLLDelta),
        ref.nWarned + (IF dLong.bWarned THEN 1 ELSE 0)
        + (IF dLat.bWarned THEN 1 ELSE 0))

TransformerAtReference(T2, ref) ==
    TransformerFromSteps(
        T2, ref,
        RPCTransformPoint(T2, ref.dfRefLong + dfLLDelta, ref.dfRefLat,
                          T2.dfRefZ),
        RPCTransformPoint(T2, ref.dfRefLong, ref.dfRefLat + dfLLDelta,
                          T2.dfRefZ))

\* h is what the sampler returned at the reference point
TransformerWithRefZ(T1, ref, h) ==
    TransformerAtReference(
        [ T1 EXCEPT !.dfRefZ = IF h.bOK THEN h.dfHeight ELSE 0 ], ref)

TransformerWithReference(T1, ref) ==
    TransformerWithRefZ(T1, ref,
        GDALRPCGetHeightAtLongLat(T1, ref.dfRefLong, ref.dfRefLat))

TransformerOpened(opened) ==
    IF ~opened.bIsValid
    THEN [ psTransform |-> NULL, nWarned |-> 0,
           heap |-> GDALDestroyRPCTransformer(opened.psInfo) ]
    ELSE TransformerWithReference(opened.psInfo,
                                  ReferencePoint(opened.psInfo))

TransformerInitialised(T0) ==
    TransformerOpened(IF T0.pszDEMPath # NOSTRING THEN GDALRPCOpenDEM(T0)
                      ELSE [ bIsValid |-> TRUE, psInfo |-> T0 ])

GDALCreateRPCTransformerV2(psRPCInfo, bReversed, dfPixErrThreshold, papszOptions, bHasGEOS) ==
    TransformerInitialised(
        InitialTransformInfo(psRPCInfo, bReversed, dfPixErrThreshold,
                             papszOptions, bHasGEOS))

(***************************************************************************)
(* The inputs: one RPC model, the option lists and the calls.              *)
(* RPCModelLinear maps longitude and latitude (degrees, scale 1) and       *)
(* height (metres, scale 2) to                                             *)
(*     pixel = (long - 10)  + h / 2 + 9   + 0.5                            *)
(*     line  = (lat - 4.8)  + h / 2 + 3.8 + 0.5.                           *)
(***************************************************************************)
Coefficients(dfConst, dfLong, dfLat, dfHeight) ==
    [ i \in 1..20 |-> CASE i = 1 -> dfConst
                        [] i = 2 -> dfLong
                        [] i = 3 -> dfLat
                        [] i = 4 -> dfHeight
                        [] OTHER -> 0 ]

RPCModelLinear ==
    [ dfLINE_OFF |-> 3 * FP + 8, dfSAMP_OFF |-> 9 * FP,
      dfLAT_OFF |-> 4 * FP + 8, dfLONG_OFF |-> 10 * FP, dfHEIGHT_OFF |-> 0,
      dfLINE_SCALE |-> FP, dfSAMP_SCALE |-> FP,
      dfLAT_SCALE |-> FP, dfLONG_SCALE |-> FP, dfHEIGHT_SCALE |-> 2 * FP,
      adfLINE_NUM_COEFF |-> Coefficients(0, 0, FP, FP),
      adfLINE_DEN_COEFF |-> Coefficients(FP, 0, 0, 0),
      adfSAMP_NUM_COEFF |-> Coefficients(0, FP, 0, FP),
      adfSAMP_DEN_COEFF |-> Coefficients(FP, 0, 0, 0),
      dfMIN_LONG |-> 8 * FP + Half, dfMIN_LAT |-> 3 * FP + Half,
      dfMAX_LONG |-> 11 * FP + Half, dfMAX_LAT |-> 6 * FP + Half ]

\* An option of the list: the name with the one value of the set S, or
\* nothing when S is empty.
Option(pszName, S) == [ k \in { pszName : v \in S } |-> CHOOSE v \in S : TRUE ]

\* the list papszOptions of a construction cfg
OptionsOf(cfg) ==
    Option("RPC_PIXEL_ERROR_THRESHOLD", cfg.threshold)
    @@ Option("RPC_HEIGHT", cfg.height)
    @@ Option("RPC_HEIGHT_SCALE", cfg.scale)
    @@ Option("RPC_DEM", cfg.dem)
    @@ Option("RPC_DEMINTERPOLATION", cfg.interp)
    @@ Option("RPC_DEM_MISSING_VALUE", cfg.missing)
    @@ Option("RPC_MAX_ITERATIONS", cfg.maxiter)
    @@ Option("RPC_FOOTPRINT", cfg.footprint)
    @@ Option("RPC_DEM_SRS", cfg.srs)

FootprintWKT == "POLYGON((9.5 4,10.8 4,10.8 6.5,9.5 6.5,9.5 4))"

BaseConfig ==
    [ bReversed |-> FALSE, dfPixErrThreshold |-> 0, bHasGEOS |-> TRUE,
      threshold |-> {}, height |-> {}, scale |-> {}, dem |-> {},
      interp |-> {}, missing |-> {}, maxiter |-> {}, footprint |-> {},
      srs |-> {} ]

HeightChoices ==
    { [ height |-> {}, scale |-> {} ],
      [ height |-> { << "0", ".", "2" >> }, scale |-> { << "2" >> } ] }

\* constructions with an elevation raster
ConfigsDEM ==
    { [ BaseConfig EXCEPT !.dem = {d}, !.interp = {a}, !.missing = m,
                          !.height = h.height, !.scale = h.scale,
                          !.footprint = f ] :
        d \in {"dem.tif", "hole.tif"}, a \in {"near", "bilinear", "cubic"},
        m \in { {}, { << "0", ".", "5" >> } }, h \in HeightChoices,
        f \in { {}, {FootprintWKT} } }
    \cup
    { [ BaseConfig EXCEPT !.dem = {"void.tif"}, !.interp = {a},
                          !.missing = m ] :
        a \in {"near", "bilinear", "cubic"},
        m \in { {}, { << "0", ".", "5" >> } } }
    \cup
    { [ BaseConfig EXCEPT !.dem = {"utm.tif"}, !.missing = m ] :
        m \in { {}, { << "0", ".", "5" >> } } }
    \cup
    \* the raster's heights are declared to be above the geoid
    { [ BaseConfig EXCEPT !.dem = {"dem.tif"}, !.interp = {"near"},
                          !.srs = {"EGM96"}, !.height = h.height,
                          !.scale = h.scale ] : h \in HeightChoices }

\* constructions that vary the threshold and the iteration cap
ThresholdArguments == { 0, Half, -FP }
ThresholdOptions ==
    { {}, { << "0" >> }, { << "0", ".", "5" >> }, { << "-", "1" >> } }
MaxIterationOptions == { {}, { << "3" >> }, { << "0" >> }, { << "1", "2" >> } }

ConfigsSolver ==
    { [ BaseConfig EXCEPT !.dfPixErrThreshold = t, !.threshold = o ] :
        t \in ThresholdArguments, o \in ThresholdOptions }
    \cup
    { [ BaseConfig EXCEPT !.maxiter = n ] : n \in MaxIterationOptions }
    \cup
    { [ BaseConfig EXCEPT !.dem = {d}, !.interp = {"near"},
                          !.threshold = o, !.maxiter = n ] :
        d \in {"dem.tif", "hole.tif"}, o \in { { << "0" >> } },
        n \in { {}, { << "3" >> }, { << "2", "5" >> } } }

\* constructions without a raster
ConfigsPlain ==
    { [ BaseConfig EXCEPT !.height = h.height, !.scale = h.scale,
                          !.footprint = f ] :
        h \in HeightChoices, f \in { {}, {FootprintWKT} } }
    \cup
    { [ BaseConfig EXCEPT !.bReversed = TRUE, !.footprint = f ] :
        f \in { {}, {FootprintWKT} } }

\* rasters the row optimizer does not apply to: one in another frame, one
\* with a sheared geotransform
ConfigsOtherFrames ==
    { [ BaseConfig EXCEPT !.dem = {"dem.tif"}, !.interp = {"near"},
                          !.srs = {"EGM96"} ],
      [ BaseConfig EXCEPT !.dem = {"skew.tif"}, !.interp = {"near"} ] }

Configs == ConfigsDEM \cup ConfigsSolver \cup ConfigsPlain
           \cup ConfigsOtherFrames

\* The coordinates of the calls: as longitude and latitude (ground to image)
\* or as pixel and line (image to ground).
\*   (10.0, 5.0)  the reference point, inside the footprint
\*   ( 9.2, 5.3)  outside the footprint, on an invalid pixel of hole.tif
\*   (10.6, 5.8)  inside the footprint
\*   ( 9.8, 3.7)  outside the footprint, south of the rasters
TestPoints ==
    { << 10 * FP, 5 * FP >>, << 9 * FP + 2, 5 * FP + 3 >>,
      << 10 * FP + 6, 5 * FP + 8 >>, << 9 * FP + 8, 3 * FP + 7 >> }
UserHeight == 2
MaxPoints == 2
\* the rows have up to MinWholeLinePoints + BatchExtra points
BatchExtra == 1

\* the Z array of a call: absent (no array) when bHasZ is FALSE
ConstantZ(n, bHasZ) ==
    IF bHasZ THEN [ i \in 1..n |-> UserHeight ] ELSE << >>

\* calls on a few points, any of TestPoints
PointCalls ==
    { [ bDstToSrc |-> d, nPointCount |-> Len(xy),
        padfX |-> [ i \in 1..Len(xy) |-> xy[i][1] ],
        padfY |-> [ i \in 1..Len(xy) |-> xy[i][2] ],
        padfZ |-> ConstantZ(Len(xy), z), bHasZ |-> z,
        bDEMOptim |-> TRUE, bRasterIOFails |-> FALSE ] :
      d \in BOOLEAN, z \in BOOLEAN,
      xy \in UNION { [ 1..m -> TestPoints ] : m \in 0..MaxPoints } }

\* calls on a row of points: longitudes dfX0, dfX0 + dfStep, ..., latitudes
\* padfY
RowCall(n, dfX0, dfStep, rowY, bHasZ, bDEMOptim, bRasterIOFails) ==
    [ bDstToSrc |-> TRUE, nPointCount |-> n,
      padfX |-> [ i \in 1..n |-> dfX0 + (i - 1) * dfStep ],
      padfY |-> rowY,
      padfZ |-> ConstantZ(n, bHasZ), bHasZ |-> bHasZ,
      bDEMOptim |-> bDEMOptim, bRasterIOFails |-> bRasterIOFails ]

RowSizes == MinWholeLinePoints..(MinWholeLinePoints + BatchExtra)
RowStarts == { << 9 * FP + 6, 1 >>, << 9 * FP + 4, 1 >> }
RowLatitudes == { 5 * FP + 8, 3 * FP + 7 }

RowCalls ==
    { RowCall(n, r[1], r[2], [ i \in 1..n |-> y ], z, TRUE, FALSE) :
        n \in RowSizes, r \in RowStarts, y \in RowLatitudes,
        z \in BOOLEAN }
    \cup
    \* the optimizer is switched off, or the row is one point too short
    { RowCall(n, 9 * FP + 6, 1, [ i \in 1..n |-> 5 * FP + 8 ], FALSE,
              FALSE, FALSE) : n \in RowSizes }
    \cup
    { RowCall(MinWholeLinePoints - 1, 9 * FP + 6, 1,
              [ i \in 1..(MinWholeLinePoints - 1) |-> 5 * FP + 8 ], FALSE,
              TRUE, FALSE) }
    \cup
    \* one latitude differs: at the second point, or at the middle one
    { RowCall(n, 9 * FP + 6, 1,
              [ i \in 1..n |-> IF i = k THEN 5 * FP + 9 ELSE 5 * FP + 8 ],
              FALSE, TRUE, FALSE) :
        n \in RowSizes, k \in { 2, (MinWholeLinePoints \div 2) + 1 } }
    \cup
    \* the block read fails
    { RowCall(n, 9 * FP + 6, 1, [ i \in 1..n |-> 5 * FP + 8 ], z, TRUE, TRUE) :
        n \in RowSizes, z \in BOOLEAN }

Calls == PointCalls \cup RowCalls

(***************************************************************************)
(* The state machine: a caller that creates a transformer, calls           *)
(* GDALRPCTransform on it any number of times, and destroys it.            *)
(***************************************************************************)
Init ==
    /\ psTransform = NULL
    /\ createArgs = NULL
    /\ nCountWarningsAboutAboveOneNormalizedValues = 0
    /\ call = NULL
    /\ padfX = << >>
    /\ padfY = << >>
    /\ panSuccess = << >>
    /\ ret = "none"
    /\ usedWholeLine = FALSE
    /\ points = << >>
    /\ inv = NULL
    /\ psTree = NULL
    /\ pResult = UNSET
    /\ psNewInfo = UNSET
    /\ adfRatio = NULL
    /\ heap = NULL
    /\ eval = NULL
    /\ running = [ t \in Threads |-> NULL ]
    /\ bOnce = FALSE

\* the caller keeps the pointer r.psTransform the constructor returned
CreateReturns(r) ==
    /\ psTransform' = r.psTransform
    /\ nCountWarningsAboutAboveOneNormalizedValues' =
           CountWarnings(nCountWarningsAboutAboveOneNormalizedValues,
                         r.nWarned)

\* RPCModelLinear at 1.4 pixels per degree: the gradient measured over one
\* step is rounded to 1, and the solver's steps overshoot
RPCModelSteep ==
    [ RPCModelLinear EXCEPT !.dfSAMP_SCALE = FP + 4, !.dfLINE_SCALE = FP + 4 ]

\* the RPC model a construction is given
RPCModelOfConfig(cfg) ==
    IF "model" \in DOMAIN cfg /\ cfg.model = "steep" THEN RPCModelSteep
    ELSE RPCModelLinear

Create(cfg) ==
    /\ psTransform = NULL
    /\ CreateReturns(GDALCreateRPCTransformerV2(RPCModelOfConfig(cfg),
                                                cfg.bReversed,
                                                cfg.dfPixErrThreshold,
                                                OptionsOf(cfg), cfg.bHasGEOS))
    /\ createArgs' = cfg
    /\ UNCHANGED << call, padfX, padfY, panSuccess, ret, usedWholeLine,
                    points, inv >>
    /\ UNCHANGED << derived, bOnce >>

\* TransformerAfterCall with the height of the call's last point kept as
\* the reference height
TransformerAfterCallSeeded(psInfo, r) ==
    IF r.pts = << >> \/ r.pts[Len(r.pts)].dfHeight = NONE THEN psInfo
    ELSE [ psInfo EXCEPT !.dfRefZ = r.pts[Len(r.pts)].dfHeight ]

\* The structure after a call of GDALRPCTransform that gave r: lines
\* 1128-1372 and 1813-1998 read the fields of psTransform and assign none
\* of them.  (The elevation cache, which the sampler does assign, is not a
\* field of the model's structure.)
TransformerAfterCall(psInfo, r) == psInfo

\* the caller's arrays and the return value after the call gave r
TransformReturns(r) ==
    /\ padfX' = r.padfX
    /\ padfY' = r.padfY
    /\ panSuccess' = r.panSuccess
    /\ ret' = r.bRet
    /\ usedWholeLine' = r.bWholeLine
    /\ points' = r.pts
    /\ psTransform' = TransformerAfterCall(psTransform, r)
    /\ bOnce' = (bOnce \/ r.bWholeLine)
    /\ nCountWarningsAboutAboveOneNormalizedValues' =
           CountWarnings(nCountWarningsAboutAboveOneNormalizedValues,
                         r.nWarned)

\* a call of GDALRPCTransform, on arrays the caller has just filled
Transform(c) ==
    /\ psTransform # NULL
    /\ call = NULL
    /\ inv = NULL
    /\ TransformReturns(GDALRPCTransform(psTransform, c))
    /\ call' = c
    /\ UNCHANGED << createArgs, inv >>
    /\ UNCHANGED derived

\* the caller is done with the arrays of its last call
ReleaseArrays ==
    /\ call # NULL
    /\ call' = NULL
    /\ padfX' = << >>
    /\ padfY' = << >>
    /\ panSuccess' = << >>
    /\ ret' = "none"
    /\ usedWholeLine' = FALSE
    /\ points' = << >>
    /\ UNCHANGED << psTransform, createArgs,
                    nCountWarningsAboutAboveOneNormalizedValues, inv >>
    /\ UNCHANGED << derived, bOnce >>

Destroy ==
    /\ psTransform # NULL
    /\ inv = NULL
    /\ psTransform' = NULL
    /\ createArgs' = NULL
    /\ call' = NULL
    /\ padfX' = << >>
    /\ padfY' = << >>
    /\ panSuccess' = << >>
    /\ ret' = "none"
    /\ usedWholeLine' = FALSE
    /\ points' = << >>
    /\ UNCHANGED << nCountWarningsAboutAboveOneNormalizedValues, inv >>
    /\ UNCHANGED << derived, bOnce >>

Next ==
    \/ \E cfg \in Configs : Create(cfg)
    \/ \E c \in Calls : Transform(c)
    \/ ReleaseArrays
    \/ Destroy

Spec == Init /\ [][Next]_vars

(***************************************************************************)
(* The inverse solver one pass at a time: a caller that creates a          *)
(* transformer and runs RPCInverseTransformPoint on one pixel and line,    *)
(* the loop body being one step.  inv holds the function's locals; the     *)
(* caller's result cells pdfLong and pdfLat are padfX[1] and padfY[1],     *)
(* initialised to 0 as GDALRPCTransform does, and ret is what the          *)
(* function returned.                                                      *)
(***************************************************************************)
ConfigsInv ==
    ConfigsSolver
    \cup { cfg \in ConfigsDEM :
             /\ cfg.footprint = {}
             /\ cfg.interp \in { {"near"}, {"bilinear"} }
             /\ cfg.dem # {"void.tif"} }
    \cup { cfg \in ConfigsPlain : ~cfg.bReversed /\ cfg.footprint = {} }
    \* a fixed height, and a threshold no pass can meet
    \cup { [ BaseConfig EXCEPT !.height = h.height, !.scale = h.scale,
                               !.threshold = { << "0" >> },
                               !.maxiter = { << "3" >> } ] :
             h \in HeightChoices }
    \* a model whose solver overshoots, without a raster and with one
    \cup { [ model |-> "steep" ] @@ [ BaseConfig EXCEPT !.dem = d ] :
             d \in { {}, {"dem.tif"} } }

UserHeights == { 0, UserHeight }
\* the pixels and lines solved for: the test points, and one whose seed
\* lies north of the rasters
TestPointsInv == TestPoints \cup { << 10 * FP, 8 * FP >> }

InvBegin(dfPixel, dfLine, dfUserHeight) ==
    /\ psTransform # NULL
    /\ call = NULL
    /\ inv = NULL
    /\ inv' = InvStart(psTransform, dfPixel, dfLine, dfUserHeight)
    /\ padfX' = << 0 >>
    /\ padfY' = << 0 >>
    /\ ret' = "none"
    /\ UNCHANGED << psTransform, createArgs,
                    nCountWarningsAboutAboveOneNormalizedValues, call,
                    panSuccess, usedWholeLine, points >>
    /\ UNCHANGED << derived, bOnce >>

\* the locals L after a pass, and the return when the pass ends the loop
InvStepReturns(L) ==
    /\ inv' = L
    /\ nCountWarningsAboutAboveOneNormalizedValues' =
           CountWarnings(nCountWarningsAboutAboveOneNormalizedValues,
                         L.nWarned - inv.nWarned)
    /\ IF L.status = "converged"
       THEN /\ padfX' = << L.dfResultX >>
            /\ padfY' = << L.dfResultY >>
            /\ ret' = "TRUE"
       ELSE /\ UNCHANGED << padfX, padfY >>
            /\ ret' = IF L.status = "failed" THEN "FALSE" ELSE ret

\* one pass of the loop
InvStep ==
    /\ inv # NULL
    /\ inv.status = "running"
    /\ InvStepReturns(InvIterate(psTransform, inv))
    /\ UNCHANGED << psTransform, createArgs, call, panSuccess, usedWholeLine,
                    points >>
    /\ UNCHANGED << derived, bOnce >>

\* the caller is done with the result
InvEnd ==
    /\ inv # NULL
    /\ inv.status # "running"
    /\ inv' = NULL
    /\ padfX' = << >>
    /\ padfY' = << >>
    /\ ret' = "none"
    /\ UNCHANGED << psTransform, createArgs,
                    nCountWarningsAboutAboveOneNormalizedValues, call,
                    panSuccess, usedWholeLine, points >>
    /\ UNCHANGED << derived, bOnce >>

NextInv ==
    \/ \E cfg \in ConfigsInv : Create(cfg)
    \/ \E p \in TestPointsInv, z \in UserHeights : InvBegin(p[1], p[2], z)
    \/ InvStep
    \/ InvEnd
    \/ Destroy

SpecInv == Init /\ [][NextInv]_vars

(***************************************************************************)
(* Properties of a finished GDALRPCTransform call.                         *)
(***************************************************************************)
CallDone == call # NULL
PointIndices == IF call = NULL THEN {} ELSE 1..call.nPointCount
\* the direction the call ran in: ground to image, or image to ground
GroundToImage == Xor(call.bDstToSrc, psTransform.bReversed)
FlagsWritten ==
    /\ DOMAIN panSuccess = PointIndices
    /\ \A i \in PointIndices : panSuccess[i] \in {"TRUE", "FALSE"}

\* C1 as stated: after a call on n points every flag is written, the
\* call returns TRUE only if every flag is TRUE, and whenever it returns
\* FALSE at least one flag is FALSE.
C1_AsStated ==
    CallDone =>
        /\ FlagsWritten
        /\ (ret = "TRUE" => \A i \in PointIndices : panSuccess[i] = "TRUE")
        /\ (ret = "FALSE" => \E i \in PointIndices : panSuccess[i] = "FALSE")

\* C1 amended: after a call on n points every flag is written, the call
\* returns TRUE only if every flag is TRUE, and when it returns FALSE some
\* flag is FALSE unless the call was image to ground without a Z array on
\* zero points (which returns FALSE with no flag to write).
C1_FlagsAndReturn ==
    CallDone =>
        /\ FlagsWritten
        /\ (ret = "TRUE" => \A i \in PointIndices : panSuccess[i] = "TRUE")
        /\ (ret = "FALSE" =>
                \/ \E i \in PointIndices : panSuccess[i] = "FALSE"
                \/ (call.nPointCount = 0 /\ ~GroundToImage /\ ~call.bHasZ))
        /\ (ret \in {"TRUE", "FALSE"})

\* a call that failed on one point and succeeded on another
C1_Witness ==
    /\ CallDone
    /\ ret = "FALSE"
    /\ \E i, j \in PointIndices :
          panSuccess[i] = "FALSE" /\ panSuccess[j] = "TRUE"

\* C2 as stated: after a call every point whose flag is FALSE has X and Y
\* set to HUGE_VAL, on every failure path and for every kernel.
C2_FailedPointsHaveSentinel ==
    CallDone =>
        \A i \in PointIndices :
            panSuccess[i] = "FALSE" =>
                padfX[i] = HUGE_VAL /\ padfY[i] = HUGE_VAL

\* C3 as stated: with a footprint configured no point whose ground
\* longitude and latitude lie outside it is reported as a success; ground
\* to image the input is the ground position, image to ground the result.
C3_NoSuccessOutsideFootprint ==
    (CallDone /\ psTransform.poRPCFootprintPreparedGeom # NULL) =>
        \A i \in PointIndices :
            panSuccess[i] = "TRUE" =>
                IF GroundToImage
                THEN OGRPreparedGeometryContains(
                         psTransform.poRPCFootprintPreparedGeom,
                         call.padfX[i], call.padfY[i])
                ELSE OGRPreparedGeometryContains(
                         psTransform.poRPCFootprintPreparedGeom,
                         padfX[i], padfY[i])

\* what the per-point path does with point i of the call
PerPointPath(i) ==
    ForwardPoint(psTransform, call.padfX[i], call.padfY[i],
                 IF call.bHasZ THEN call.padfZ[i] ELSE 0)

\* C4 as stated: when the row optimizer engages (and its block read
\* works), each point's flag, the height passed to the forward transform
\* and the output pixel and line are those of the per-point path.
C4_BatchEqualsPerPoint ==
    (CallDone /\ usedWholeLine /\ ~call.bRasterIOFails) =>
        \A i \in PointIndices :
            /\ (panSuccess[i] = "TRUE") = PerPointPath(i).bSuccess
            /\ points[i].dfHeight = PerPointPath(i).dfHeight
            /\ padfX[i] = PerPointPath(i).dfX
            /\ padfY[i] = PerPointPath(i).dfY

(***************************************************************************)
(* Properties of the inverse solver and of the construction.  What the     *)
(* caller asked for is read from createArgs, with the option strings of    *)
(* the configurations given their decimal values (in units of 1/FP) here.  *)
(***************************************************************************)
DecimalOf(str) ==
    CASE str = << "0" >> -> 0
      [] str = << "0", ".", "2" >> -> 2
      [] str = << "0", ".", "5" >> -> 5
      [] str = << "2" >> -> 2 * FP
      [] str = << "-", "1" >> -> -FP

IntegerOf(str) ==
    CASE str = << "0" >> -> 0
      [] str = << "3" >> -> 3
      [] str = << "1", "2" >> -> 12
      [] str = << "2", "5" >> -> 25

TheValue(S) == CHOOSE v \in S : TRUE
IterationCap ==
    IF createArgs.maxiter = {} THEN 0 ELSE IntegerOf(TheValue(createArgs.maxiter))
HasRaster == createArgs.dem # {}
IterationBudget ==
    IF IterationCap > 0 THEN IterationCap
    ELSE IF HasRaster THEN 20 ELSE 10
InvActive == inv # NULL
\* the last pass of the loop evaluated the forward transform
InvEvaluated == InvActive /\ inv.nEvals > 0 /\ inv.eStep # "demfail"

BackProjectionError ==
    LET back == RPCTransformPoint(psTransform, inv.dfEvalX, inv.dfEvalY,
                                  inv.dfEvalHeight)
    IN  Max(Abs(back.pixel - inv.dfPixel), Abs(back.line - inv.dfLine))

\* C6: the solver returns TRUE exactly when a pass within the budget has a
\* back-projection error strictly below the threshold, the result written
\* is the guess that error was evaluated at, and a failure (budget used up,
\* or a lookup failure after the first pass) writes no result.
C6_SuccessIffConverged ==
    InvActive =>
        /\ (inv.status = "converged") =
               (inv.nEvals > 0
                /\ BackProjectionError < psTransform.dfPixErrThreshold)
        /\ (ret = "TRUE") = (inv.status = "converged")
        /\ (ret = "FALSE") = (inv.status = "failed")
        /\ inv.status = "converged" =>
               /\ padfX = << inv.dfEvalX >>
               /\ padfY = << inv.dfEvalY >>
               /\ inv.nEvals <= IterationBudget
        /\ inv.status # "converged" =>
               /\ padfX = << 0 >>
               /\ padfY = << 0 >>
        /\ (inv.status = "failed" /\ inv.eStep # "demfail") =>
               inv.nEvals = IterationBudget
        /\ inv.status = "running" => inv.nEvals < IterationBudget

\* a point that converged on its third pass or later
C6_Witness ==
    /\ InvActive
    /\ inv.status = "converged"
    /\ inv.nEvals > 2
    /\ ret = "TRUE"

\* the threshold the caller configured: the option when given, else the
\* argument
ConfiguredThreshold ==
    IF createArgs.threshold # {} THEN DecimalOf(TheValue(createArgs.threshold))
    ELSE createArgs.dfPixErrThreshold
ThresholdOptionNotPositive ==
    /\ createArgs.threshold # {}
    /\ DecimalOf(TheValue(createArgs.threshold)) <= 0

RequestedHeightOffset ==
    IF createArgs.height = {} THEN 0 ELSE DecimalOf(TheValue(createArgs.height))
RequestedHeightScale ==
    IF createArgs.scale = {} THEN FP ELSE DecimalOf(TheValue(createArgs.scale))
\* the vertical datum shift of the configured raster frame: the rasters
\* declared above the geoid lie 0.4 below the ellipsoid
RequestedVDatumShift == IF createArgs.srs = {"EGM96"} THEN 4 ELSE 0
\* the sampler at the guess of the last evaluated pass
SamplerAtEval ==
    GDALRPCGetHeightAtLongLat(psTransform, inv.dfEvalX, inv.dfEvalY)
\* verticalDatumShift + heightOffset + demValue * heightScale
StatedHeight(h) ==
    IF ~HasRaster THEN RequestedHeightOffset
    ELSE RequestedVDatumShift + RequestedHeightOffset
         + FMul(h.dfDEMH, RequestedHeightScale)

\* C9 as stated: the sampler's height is verticalDatumShift + heightOffset
\* + demValue * heightScale (the offset alone without a raster), and every
\* forward evaluation of an inverse pass uses userHeight + that height;
\* where the first pass substitutes for a failed sampling, demValue is the
\* raster value at the snapped cell, or the height is the reference height.
C9_AsStated ==
    InvEvaluated =>
        LET h == SamplerAtEval
            p == InvSnapPosition(psTransform, h)
            v == GDALRPCGetDEMHeight(psTransform, p.dfDEMPixel, p.dfDEMLine)
        IN  IF h.bOK
            THEN /\ h.dfHeight = StatedHeight(h)
                 /\ inv.dfEvalHeight = inv.dfUserHeight + h.dfHeight
            ELSE IF v # NONE
            THEN inv.dfEvalHeight =
                     inv.dfUserHeight + RequestedVDatumShift
                     + RequestedHeightOffset + FMul(v, RequestedHeightScale)
            ELSE inv.dfEvalHeight = inv.dfUserHeight + psTransform.dfRefZ

\* the configured missing value
RequestedMissingValue == DecimalOf(TheValue(createArgs.missing))
\* point i of the call went through the per-point ground-to-image path on
\* a raster, and passed the footprint test
PerPointOnRaster(i) ==
    /\ GroundToImage
    /\ ~usedWholeLine
    /\ psTransform.poDS # NULL
    /\ RPCIsValidLongLat(psTransform, call.padfX[i], call.padfY[i])
\* with the nearest kernel on a raster in the RPC's frame: the cell holding
\* the point is outside the raster or holds the nodata value
NearestCellInvalid(i) ==
    LET nX == Floor(call.padfX[i] - 8 * FP)
        nY == Floor(8 * FP - call.padfY[i])
    IN  /\ createArgs.interp = {"near"}
        /\ createArgs.dem \in { {"dem.tif"}, {"hole.tif"}, {"void.tif"} }
        /\ createArgs.srs = {}
        /\ \/ nX < 0 \/ nX >= DEMXSize \/ nY < 0 \/ nY >= DEMYSize
           \/ createArgs.dem = {"void.tif"}
           \/ (createArgs.dem = {"hole.tif"} /\ nX = 1 /\ nY \in {1, 2})

\* C10: on a raster, when the lookup at a point fails (nodata, or outside
\* the extent), the sampler succeeds with the DEM value RPC_DEM_MISSING_VALUE
\* if that is configured and reports a failure if not, and the per-point
\* ground-to-image path then fails the point.
C10_LookupFailure ==
    CallDone =>
        \A i \in PointIndices :
            PerPointOnRaster(i) =>
                LET h == GDALRPCGetHeightAtLongLat(psTransform, call.padfX[i],
                                                   call.padfY[i])
                    dfZ == IF call.bHasZ THEN call.padfZ[i] ELSE 0
                IN  /\ NearestCellInvalid(i) => h.bLookupFailed
                    /\ h.bLookupFailed =>
                          IF createArgs.missing # {}
                          THEN /\ h.bOK
                               /\ h.dfDEMH = RequestedMissingValue
                               /\ panSuccess[i] = "TRUE"
                               /\ points[i].dfHeight =
                                      dfZ + RequestedVDatumShift
                                      + RequestedHeightOffset
                                      + FMul(RequestedMissingValue,
                                             RequestedHeightScale)
                          ELSE /\ ~h.bOK
                               /\ panSuccess[i] = "FALSE"
                               /\ ret = "FALSE"

\* a per-point call on hole.tif, nearest kernel, no missing value: the
\* point on the invalid cell failed and another point succeeded
C10_Witness ==
    /\ CallDone
    /\ createArgs.missing = {}
    /\ \E i, j \in PointIndices :
          /\ PerPointOnRaster(i)
          /\ NearestCellInvalid(i)
          /\ panSuccess[i] = "FALSE"
          /\ panSuccess[j] = "TRUE"

(***************************************************************************)
(* Serialization.  A printed number is a sequence of characters, as the    *)
(* option strings are.  Printf with %.15g or %.17g prints a double of the  *)
(* model (a multiple of 1/FP) with one decimal when it has a fraction;     *)
(* both precisions print such a value so that CPLAtof reads it back.       *)
(***************************************************************************)
RECURSIVE FormatDigits(_)
\* the decimal digits of the natural number n
FormatDigits(n) ==
    IF n < 10 THEN << DigitChars[n + 1] >>
    ELSE Append(FormatDigits(n \div 10), DigitChars[(n % 10) + 1])

\* Printf("%d", n)
FormatD(n) == IF n < 0 THEN << "-" >> \o FormatDigits(-n) ELSE FormatDigits(n)

\* Printf("%.15g", v) and Printf("%.17g", v)
FormatG(v) ==
    (IF v < 0 THEN << "-" >> ELSE << >>)
    \o FormatDigits(Abs(v) \div FP)
    \o (IF Abs(v) % FP = 0 THEN << >>
        ELSE << ".", DigitChars[(Abs(v) % FP) + 1] >>)

\* Printf("%f", v): six decimals
FormatF(v) ==
    (IF v < 0 THEN << "-" >> ELSE << >>)
    \o FormatDigits(Abs(v) \div FP)
    \o << ".", DigitChars[(Abs(v) % FP) + 1], "0", "0", "0", "0", "0" >>

RECURSIVE JoinFields(_, _)
\* the numbers of adf from index i on, printed and separated by spaces
JoinFields(adf, i) ==
    IF i > Len(adf) THEN << >>
    ELSE (IF i > 1 THEN << " " >> ELSE << >>)
         \o FormatG(adf[i]) \o JoinFields(adf, i + 1)

RECURSIVE Tokens(_, _, _)
\* the words of str from position i on, cur being the word under way
Tokens(str, i, cur) ==
    IF i > Len(str) THEN (IF cur = << >> THEN << >> ELSE << cur >>)
    ELSE IF str[i] = " "
    THEN (IF cur = << >> THEN << >> ELSE << cur >>)
         \o Tokens(str, i + 1, << >>)
    ELSE Tokens(str, i + 1, Append(cur, str[i]))

\* the metadata items of an RPC model, by key
RPCInfoV2ToMD(psRPCInfo) ==
    [ LINE_OFF |-> FormatG(psRPCInfo.dfLINE_OFF),
      SAMP_OFF |-> FormatG(psRPCInfo.dfSAMP_OFF),
      LAT_OFF |-> FormatG(psRPCInfo.dfLAT_OFF),
      LONG_OFF |-> FormatG(psRPCInfo.dfLONG_OFF),
      HEIGHT_OFF |-> FormatG(psRPCInfo.dfHEIGHT_OFF),
      LINE_SCALE |-> FormatG(psRPCInfo.dfLINE_SCALE),
      SAMP_SCALE |-> FormatG(psRPCInfo.dfSAMP_SCALE),
      LAT_SCALE |-> FormatG(psRPCInfo.dfLAT_SCALE),
      LONG_SCALE |-> FormatG(psRPCInfo.dfLONG_SCALE),
      HEIGHT_SCALE |-> FormatG(psRPCInfo.dfHEIGHT_SCALE),
      MIN_LONG |-> FormatG(psRPCInfo.dfMIN_LONG),
      MIN_LAT |-> FormatG(psRPCInfo.dfMIN_LAT),
      MAX_LONG |-> FormatG(psRPCInfo.dfMAX_LONG),
      MAX_LAT |-> FormatG(psRPCInfo.dfMAX_LAT),
      LINE_NUM_COEFF |-> JoinFields(psRPCInfo.adfLINE_NUM_COEFF, 1),
      LINE_DEN_COEFF |-> JoinFields(psRPCInfo.adfLINE_DEN_COEFF, 1),
      SAMP_NUM_COEFF |-> JoinFields(psRPCInfo.adfSAMP_NUM_COEFF, 1),
      SAMP_DEN_COEFF |-> JoinFields(psRPCInfo.adfSAMP_DEN_COEFF, 1) ]

\* the 20 coefficients of a metadata item, << >> when it has not 20 words
ExtractCoefficients(words) ==
    IF Len(words) # 20 THEN << >>
    ELSE [ i \in 1..20 |-> CPLAtof(words[i]) ]

\* the RPC model of the coefficient lists and the scalar items
RPCInfoOfItems(papszMD, lineNum, lineDen, sampNum, sampDen) ==
    IF << >> \in { lineNum, lineDen, sampNum, sampDen } THEN NULL
    ELSE [ dfLINE_OFF |-> CPLAtof(papszMD.LINE_OFF),
           dfSAMP_OFF |-> CPLAtof(papszMD.SAMP_OFF),
           dfLAT_OFF |-> CPLAtof(papszMD.LAT_OFF),
           dfLONG_OFF |-> CPLAtof(papszMD.LONG_OFF),
           dfHEIGHT_OFF |-> CPLAtof(papszMD.HEIGHT_OFF),
           dfLINE_SCALE |-> CPLAtof(papszMD.LINE_SCALE),
           dfSAMP_SCALE |-> CPLAtof(papszMD.SAMP_SCALE),
           dfLAT_SCALE |-> CPLAtof(papszMD.LAT_SCALE),
           dfLONG_SCALE |-> CPLAtof(papszMD.LONG_SCALE),
           dfHEIGHT_SCALE |-> CPLAtof(papszMD.HEIGHT_SCALE),
           adfLINE_NUM_COEFF |-> lineNum,
           adfLINE_DEN_COEFF |-> lineDen,
           adfSAMP_NUM_COEFF |-> sampNum,
           adfSAMP_DEN_COEFF |-> sampDen,
           dfMIN_LONG |-> CPLAtof(papszMD.MIN_LONG),
           dfMIN_LAT |-> CPLAtof(papszMD.MIN_LAT),
           dfMAX_LONG |-> CPLAtof(papszMD.MAX_LONG),
           dfMAX_LAT |-> CPLAtof(papszMD.MAX_LAT) ]

\* GDALExtractRPCInfoV2: the RPC model of the metadata items, NULL when a
\* coefficient list is not complete
GDALExtractRPCInfoV2(papszMD) ==
    RPCInfoOfItems(papszMD,
        ExtractCoefficients(Tokens(papszMD.LINE_NUM_COEFF, 1, << >>)),
        ExtractCoefficients(Tokens(papszMD.LINE_DEN_COEFF, 1, << >>)),
        ExtractCoefficients(Tokens(papszMD.SAMP_NUM_COEFF, 1, << >>)),
        ExtractCoefficients(Tokens(papszMD.SAMP_DEN_COEFF, 1, << >>)))

GDALSerializeRPCDEMResample(eResampleAlg) ==
    CASE eResampleAlg = DRA_NearestNeighbour -> "near"
      [] eResampleAlg = DRA_CubicSpline -> "cubic"
      [] OTHER -> "bilinear"

\* The tree: its elements by name, each with its text, and the metadata.
GDALSerializeRPCTransformer(psInfo) ==
    [ elements |->
          Option("Reversed", { FormatD(IF psInfo.bReversed THEN 1 ELSE 0) })
          @@ Option("HeightOffset", { FormatG(psInfo.dfHeightOffset) })
          @@ Option("HeightScale",
                    IF psInfo.dfHeightScale # FP
                    THEN { FormatG(psInfo.dfHeightScale) } ELSE {})
          @@ Option("DEMPath",
                    IF psInfo.pszDEMPath # NOSTRING
                    THEN { psInfo.pszDEMPath } ELSE {})
          @@ Option("DEMInterpolation",
                    IF psInfo.pszDEMPath # NOSTRING
                    THEN { GDALSerializeRPCDEMResample(psInfo.eResampleAlg) }
                    ELSE {})
          @@ Option("DEMMissingValue",
                    IF psInfo.pszDEMPath # NOSTRING
                       /\ psInfo.bHasDEMMissingValue
                    THEN { FormatG(psInfo.dfDEMMissingValue) } ELSE {})
          @@ Option("DEMApplyVDatumShift",
                    IF psInfo.pszDEMPath # NOSTRING
                    THEN { IF psInfo.bApplyDEMVDatumShift
                           THEN "true" ELSE "false" }
                    ELSE {})
          @@ Option("DEMSRS",
                    IF psInfo.pszDEMPath # NOSTRING
                       /\ psInfo.pszDEMSRS # NOSTRING
                    THEN { psInfo.pszDEMSRS } ELSE {})
          @@ Option("PixErrThreshold", { FormatG(psInfo.dfPixErrThreshold) }),
      metadata |-> RPCInfoV2ToMD(psInfo.sRPC) ]

\* the text of an element of the tree, pszDefault when it has none
CPLGetXMLValue(psNode, pszPath, pszDefault) ==
    IF pszPath \in DOMAIN psNode.elements THEN psNode.elements[pszPath]
    ELSE pszDefault

\* the option with the text of an element, when the tree has the element
OptionOfElement(psNode, pszName, pszPath) ==
    Option(pszName, IF pszPath \in DOMAIN psNode.elements
                    THEN { psNode.elements[pszPath] } ELSE {})

\* the option list GDALDeserializeRPCTransformer builds
DeserializedOptions(psNode) ==
    Option("RPC_HEIGHT", { CPLGetXMLValue(psNode, "HeightOffset", << "0" >>) })
    @@ Option("RPC_HEIGHT_SCALE",
              { CPLGetXMLValue(psNode, "HeightScale", << "1" >>) })
    @@ OptionOfElement(psNode, "RPC_DEM", "DEMPath")
    @@ Option("RPC_DEMINTERPOLATION",
              { CPLGetXMLValue(psNode, "DEMInterpolation", "bilinear") })
    @@ OptionOfElement(psNode, "RPC_DEM_MISSING_VALUE", "DEMMissingValue")
    @@ OptionOfElement(psNode, "RPC_DEM_APPLY_VDATUM_SHIFT",
                       "DEMApplyVDatumShift")
    @@ OptionOfElement(psNode, "RPC_DEM_SRS", "DEMSRS")

\* sRPC is the model read from the tree's metadata
DeserializeWithRPC(psNode, sRPC, bHasGEOS) ==
    IF sRPC = NULL THEN [ psTransform |-> NULL, nWarned |-> 0 ]
    ELSE GDALCreateRPCTransformerV2(
             sRPC,
             atoi(CPLGetXMLValue(psNode, "Reversed", << "0" >>)) # 0,
             CPLAtof(CPLGetXMLValue(psNode, "PixErrThreshold",
                                    FormatF(DEFAULT_PIX_ERR_THRESHOLD))),
             DeserializedOptions(psNode), bHasGEOS)

GDALDeserializeRPCTransformer(psNode, bHasGEOS) ==
    DeserializeWithRPC(psNode, GDALExtractRPCInfoV2(psNode.metadata), bHasGEOS)

(***************************************************************************)
(* GDALCreateSimilarRPCTransformer: the transformer for an overview of the *)
(* image, decimated by dfRatioX and dfRatioY.                              *)
(***************************************************************************)
SimilarRPC(sRPC, dfRatioX, dfRatioY) ==
    IF dfRatioX # FP \/ dfRatioY # FP
    THEN [ sRPC EXCEPT !.dfLINE_OFF = FDiv(@, dfRatioY),
                       !.dfLINE_SCALE = FDiv(@, dfRatioY),
                       !.dfSAMP_OFF = FDiv(@, dfRatioX),
                       !.dfSAMP_SCALE = FDiv(@, dfRatioX) ]
    ELSE sRPC

\* the option list GDALCreateSimilarRPCTransformer builds
SimilarOptions(psInfo) ==
    Option("RPC_HEIGHT", { FormatG(psInfo.dfHeightOffset) })
    @@ Option("RPC_HEIGHT_SCALE", { FormatG(psInfo.dfHeightScale) })
    @@ Option("RPC_DEM", IF psInfo.pszDEMPath # NOSTRING
                         THEN { psInfo.pszDEMPath } ELSE {})
    @@ Option("RPC_DEMINTERPOLATION",
              IF psInfo.pszDEMPath # NOSTRING
              THEN { GDALSerializeRPCDEMResample(psInfo.eResampleAlg) }
              ELSE {})
    @@ Option("RPC_DEM_MISSING_VALUE",
              IF psInfo.pszDEMPath # NOSTRING /\ psInfo.bHasDEMMissingValue
              THEN { FormatG(psInfo.dfDEMMissingValue) } ELSE {})
    @@ Option("RPC_DEM_APPLY_VDATUM_SHIFT",
              IF psInfo.pszDEMPath # NOSTRING
              THEN { IF psInfo.bApplyDEMVDatumShift THEN "TRUE" ELSE "FALSE" }
              ELSE {})
    @@ Option("RPC_MAX_ITERATIONS", { FormatD(psInfo.nMaxIterations) })

GDALCreateSimilarRPCTransformer(psInfo, dfRatioX, dfRatioY, bHasGEOS) ==
    GDALCreateRPCTransformerV2(SimilarRPC(psInfo.sRPC, dfRatioX, dfRatioY),
                               psInfo.bReversed, psInfo.dfPixErrThreshold,
                               SimilarOptions(psInfo), bHasGEOS)

(***************************************************************************)
(* A caller that creates a transformer, serializes it, rebuilds a          *)
(* transformer from the tree, and asks for a similar transformer.          *)
(***************************************************************************)
\* constructions that set the raster's options without a raster
ConfigsNoRaster ==
    { [ BaseConfig EXCEPT !.interp = {"cubic"} ],
      [ BaseConfig EXCEPT !.missing = { << "0", ".", "5" >> } ],
      [ BaseConfig EXCEPT !.srs = {"EGM96"} ] }

ConfigsSer ==
    ConfigsSolver \cup ConfigsPlain \cup ConfigsNoRaster
    \cup { cfg \in ConfigsDEM :
             /\ cfg.interp \in { {"near"}, {"cubic"}, {} }
             /\ cfg.dem # {"void.tif"} }

Ratios == { FP, Half }

Serialize ==
    /\ psTransform # NULL
    /\ call = NULL
    /\ inv = NULL
    /\ psTree = NULL
    /\ psTree' = GDALSerializeRPCTransformer(psTransform)
    /\ UNCHANGED << psTransform, createArgs,
                    nCountWarningsAboutAboveOneNormalizedValues, call,
                    padfX, padfY, panSuccess, ret, usedWholeLine, points,
                    inv, pResult, psNewInfo, adfRatio, heap, eval,
                    running, bOnce >>

\* the caller keeps the pointer r.psTransform the call returned
DeserializeReturns(r) ==
    /\ pResult' = r.psTransform
    /\ nCountWarningsAboutAboveOneNormalizedValues' =
           CountWarnings(nCountWarningsAboutAboveOneNormalizedValues,
                         r.nWarned)

Deserialize ==
    /\ psTree # NULL
    /\ pResult = UNSET
    /\ DeserializeReturns(GDALDeserializeRPCTransformer(psTree,
                                                        createArgs.bHasGEOS))
    /\ UNCHANGED << psTransform, createArgs, call, padfX, padfY, panSuccess,
                    ret, usedWholeLine, points, inv, psTree, psNewInfo,
                    adfRatio, heap, eval,
                    running, bOnce >>

CreateSimilarReturns(r) ==
    /\ psNewInfo' = r.psTransform
    /\ nCountWarningsAboutAboveOneNormalizedValues' =
           CountWarnings(nCountWarningsAboutAboveOneNormalizedValues,
                         r.nWarned)

CreateSimilar(dfRatioX, dfRatioY) ==
    /\ psTransform # NULL
    /\ call = NULL
    /\ inv = NULL
    /\ psNewInfo = UNSET
    /\ CreateSimilarReturns(
           GDALCreateSimilarRPCTransformer(psTransform, dfRatioX, dfRatioY,
                                           createArgs.bHasGEOS))
    /\ adfRatio' = << dfRatioX, dfRatioY >>
    /\ UNCHANGED << psTransform, createArgs, call, padfX, padfY, panSuccess,
                    ret, usedWholeLine, points, inv, psTree, pResult,
                    heap, eval, running, bOnce >>

\* the caller destroys the transformer and everything derived from it
DestroyAll ==
    /\ psTransform # NULL
    /\ inv = NULL
    /\ psTransform' = NULL
    /\ createArgs' = NULL
    /\ psTree' = NULL
    /\ pResult' = UNSET
    /\ psNewInfo' = UNSET
    /\ adfRatio' = NULL
    /\ UNCHANGED << nCountWarningsAboutAboveOneNormalizedValues, call,
                    padfX, padfY, panSuccess, ret, usedWholeLine, points,
                    inv, heap, eval, running, bOnce >>

NextSer ==
    \/ \E cfg \in ConfigsSer : Create(cfg)
    \/ Serialize
    \/ Deserialize
    \/ \E rx \in Ratios, ry \in Ratios : CreateSimilar(rx, ry)
    \/ DestroyAll

SpecSer == Init /\ [][NextSer]_vars

\* the fields of a transformer C11 names
C11_Fields(T) ==
    [ bReversed |-> T.bReversed, dfHeightOffset |-> T.dfHeightOffset,
      dfHeightScale |-> T.dfHeightScale, pszDEMPath |-> T.pszDEMPath,
      eResampleAlg |-> T.eResampleAlg,
      bHasDEMMissingValue |-> T.bHasDEMMissingValue,
      dfDEMMissingValue |-> T.dfDEMMissingValue,
      bApplyDEMVDatumShift |-> T.bApplyDEMVDatumShift,
      pszDEMSRS |-> T.pszDEMSRS,
      dfPixErrThreshold |-> T.dfPixErrThreshold,
      sRPC |-> T.sRPC ]

Deserialized == pResult # UNSET

\* C11 as stated: a transformer rebuilt from the serialized tree has the
\* same direction flag, height offset and scale, DEM path, interpolation
\* kind, missing value, vertical datum shift flag, DEM SRS, pixel error
\* threshold and RPC model as the original.
C11_RoundTrip ==
    Deserialized =>
        /\ pResult # NULL
        /\ C11_Fields(pResult) = C11_Fields(psTransform)

\* C12 as stated: a transformer rebuilt from the serialized tree has the
\* same maximum iteration count and the same validity footprint as the
\* original.
C12_BudgetAndFootprintKept ==
    Deserialized =>
        /\ pResult # NULL
        /\ pResult.nMaxIterations = psTransform.nMaxIterations
        /\ pResult.pszRPCFootprint = psTransform.pszRPCFootprint
        /\ pResult.poRPCFootprintPreparedGeom
           = psTransform.poRPCFootprintPreparedGeom

SimilarCreated == adfRatio # NULL

\* the fields of a transformer C13 names besides the RPC model
C13_Fields(T) ==
    [ bReversed |-> T.bReversed, dfPixErrThreshold |-> T.dfPixErrThreshold,
      dfHeightOffset |-> T.dfHeightOffset, dfHeightScale |-> T.dfHeightScale,
      pszDEMPath |-> T.pszDEMPath, eResampleAlg |-> T.eResampleAlg,
      bHasDEMMissingValue |-> T.bHasDEMMissingValue,
      dfDEMMissingValue |-> T.dfDEMMissingValue,
      bApplyDEMVDatumShift |-> T.bApplyDEMVDatumShift,
      pszDEMSRS |-> T.pszDEMSRS, nMaxIterations |-> T.nMaxIterations,
      pszRPCFootprint |-> T.pszRPCFootprint,
      poRPCFootprintPreparedGeom |-> T.poRPCFootprintPreparedGeom ]

\* C13 as stated: the similar transformer has the RPC model of the original
\* with SAMP_OFF and SAMP_SCALE divided by ratioX, LINE_OFF and LINE_SCALE
\* by ratioY, and the original's direction flag, threshold, height offset
\* and scale, DEM path, interpolation kind, missing value, vertical datum
\* shift flag, DEM SRS, maximum iteration count and footprint.
C13_SimilarSameModel ==
    SimilarCreated =>
        /\ psNewInfo # NULL
        /\ psNewInfo.sRPC =
             [ psTransform.sRPC EXCEPT
                 !.dfSAMP_OFF = FDiv(@, adfRatio[1]),
                 !.dfSAMP_SCALE = FDiv(@, adfRatio[1]),
                 !.dfLINE_OFF = FDiv(@, adfRatio[2]),
                 !.dfLINE_SCALE = FDiv(@, adfRatio[2]) ]
        /\ C13_Fields(psNewInfo) = C13_Fields(psTransform)

(***************************************************************************)
(* Constructions that may fail: a caller that gives the constructor one of *)
(* several RPC models and option lists, and drops what it got.             *)
(*   RPCModelCollinear   line and sample both follow the longitude, so the *)
(*                       affine approximation has no inverse               *)
(*   RPCModelConstant    LONG_OFF=-105, LAT_OFF=40, HEIGHT_OFF=2000,       *)
(*                       ground scales 1/1/500, image offsets and scales   *)
(*                       5000, numerators and denominators the constant 1  *)
(***************************************************************************)
RPCModelCollinear ==
    [ RPCModelLinear EXCEPT !.adfLINE_NUM_COEFF = Coefficients(0, FP, 0, FP) ]

RPCModelConstant ==
    [ dfLINE_OFF |-> 5000 * FP, dfSAMP_OFF |-> 5000 * FP,
      dfLAT_OFF |-> 40 * FP, dfLONG_OFF |-> -105 * FP,
      dfHEIGHT_OFF |-> 2000 * FP,
      dfLINE_SCALE |-> 5000 * FP, dfSAMP_SCALE |-> 5000 * FP,
      dfLAT_SCALE |-> FP, dfLONG_SCALE |-> FP, dfHEIGHT_SCALE |-> 500 * FP,
      adfLINE_NUM_COEFF |-> Coefficients(FP, 0, 0, 0),
      adfLINE_DEN_COEFF |-> Coefficients(FP, 0, 0, 0),
      adfSAMP_NUM_COEFF |-> Coefficients(FP, 0, 0, 0),
      adfSAMP_DEN_COEFF |-> Coefficients(FP, 0, 0, 0),
      dfMIN_LONG |-> -180 * FP, dfMIN_LAT |-> -90 * FP,
      dfMAX_LONG |-> 180 * FP, dfMAX_LAT |-> 90 * FP ]

\* models centred next to the antimeridian, at one pixel and at ten pixels
\* per degree of longitude
RPCModelDateline ==
    [ RPCModelLinear EXCEPT !.dfLONG_OFF = 179 * FP + 9 ]
RPCModelDatelineFine ==
    [ RPCModelLinear EXCEPT !.dfLONG_OFF = -179 * FP - 9,
                            !.dfSAMP_SCALE = 10 * FP ]

RPCModelOf(pszModel) ==
    CASE pszModel = "collinear" -> RPCModelCollinear
      [] pszModel = "constant" -> RPCModelConstant
      [] pszModel = "dateline" -> RPCModelDateline
      [] pszModel = "datelineFine" -> RPCModelDatelineFine
      [] OTHER -> RPCModelLinear

\* the constructions: a model, a raster path or none, a frame for the
\* raster or none, a footprint or none, with and without GEOS
ConfigsCtor ==
    { [ model |-> m ] @@
      [ BaseConfig EXCEPT !.dem = d, !.srs = r, !.footprint = f,
                          !.bHasGEOS = g ] :
        m \in {"linear", "collinear", "constant"},
        d \in { {}, {"dem.tif"}, {"utm.tif"}, {"missing.tif"},
                {"noband.tif"}, {"flat.tif"} },
        r \in { {}, {"EGM96"}, {"NAD83"}, {"LOCAL"} },
        f \in { {}, {FootprintWKT}, {"POLYGON(" } },
        g \in BOOLEAN }

\* the caller keeps the pointer the constructor returned; heap is the
\* record of what the call allocated and released
ConstructReturns(r) ==
    /\ psTransform' = r.psTransform
    /\ heap' = r.heap
    /\ nCountWarningsAboutAboveOneNormalizedValues' =
           CountWarnings(nCountWarningsAboutAboveOneNormalizedValues,
                         r.nWarned)

Construct(cfg) ==
    /\ createArgs = NULL
    /\ ConstructReturns(
           GDALCreateRPCTransformerV2(RPCModelOf(cfg.model), cfg.bReversed,
                                      cfg.dfPixErrThreshold, OptionsOf(cfg),
                                      cfg.bHasGEOS))
    /\ createArgs' = cfg
    /\ UNCHANGED << call, padfX, padfY, panSuccess, ret, usedWholeLine,
                    points, inv, psTree, pResult, psNewInfo, adfRatio,
                    eval, running, bOnce >>

\* the caller calls GDALDestroyRPCTransformer on the pointer it kept: the
\* call returns at once for a null pointer
Cleanup ==
    /\ createArgs # NULL
    /\ psTransform # NULL
    /\ heap' = GDALDestroyRPCTransformer(psTransform)
    /\ psTransform' = NULL
    /\ UNCHANGED << createArgs, nCountWarningsAboutAboveOneNormalizedValues,
                    call, padfX, padfY, panSuccess, ret, usedWholeLine,
                    points, inv, psTree, pResult, psNewInfo, adfRatio,
                    eval, running, bOnce >>

\* the caller goes on to its next construction
Forget ==
    /\ createArgs # NULL
    /\ psTransform = NULL
    /\ createArgs' = NULL
    /\ heap' = NULL
    /\ UNCHANGED << psTransform, nCountWarningsAboutAboveOneNormalizedValues,
                    call, padfX, padfY, panSuccess, ret, usedWholeLine,
                    points, inv, psTree, pResult, psNewInfo, adfRatio,
                    eval, running, bOnce >>

NextCtor ==
    \/ \E cfg \in ConfigsCtor : Construct(cfg)
    \/ Cleanup
    \/ Forget

SpecCtor == Init /\ [][NextCtor]_vars

\* how often pszName occurs in the sequence seq
Occurrences(seq, pszName) ==
    Cardinality({ i \in DOMAIN seq : seq[i] = pszName })

ResourceNames ==
    { "psTransform", "pszDEMPath", "pszDEMSRS", "pszRPCFootprint",
      "poRPCFootprintGeom", "poRPCFootprintPreparedGeom", "poDS", "poCT",
      "poDSSpaRef", "poWGSSpaRef" }

\* the inputs C14 names
DEMUnusable ==
    createArgs.dem \in { {"missing.tif"}, {"noband.tif"}, {"flat.tif"} }
AffineSingular == createArgs.model \in {"collinear", "constant"}
ConstructionDone == createArgs # NULL /\ heap # NULL
NoInstance == ConstructionDone /\ psTransform = NULL

RasterFrame ==
    IF createArgs.srs # {} THEN TheValue(createArgs.srs)
    ELSE GDALOpen(TheValue(createArgs.dem)).pszSRS

\* the raster opens and has a band, its frame is not WGS84 and there is no
\* coordinate transformation from WGS84 to it
FramesUnreconciled ==
    /\ createArgs.dem # {}
    /\ GDALOpen(TheValue(createArgs.dem)) # NULL
    /\ GDALOpen(TheValue(createArgs.dem)).nRasterCount >= 1
    /\ ~IsSameAsWGS84(RasterFrame)
    /\ OGRCreateCoordinateTransformation(RasterFrame) = NULL

\* C15 as stated, for the reference frames: when the raster's frame differs
\* from WGS84 and no coordinate transformation between the two can be
\* created, construction returns no instance.
C15_UnreconciledFramesFail ==
    ConstructionDone /\ FramesUnreconciled => NoInstance

(***************************************************************************)
(* The points of a batch are independent of each other.                    *)
(***************************************************************************)
\* the call of GDALRPCTransform on point i of the call c alone
SinglePoint(c, i) ==
    [ c EXCEPT !.nPointCount = 1,
               !.padfX = << c.padfX[i] >>,
               !.padfY = << c.padfY[i] >>,
               !.padfZ = IF c.bHasZ THEN << c.padfZ[i] >> ELSE << >> ]

Alone(i) == GDALRPCTransform(psTransform, SinglePoint(call, i))

\* C16: on the per-point paths every point of the batch gets the flag it
\* gets when transformed alone, whatever the points before it did, and a
\* point that did not fail has the output coordinates it has when
\* transformed alone.
C16_PointsIndependent ==
    (CallDone /\ ~usedWholeLine) =>
        \A i \in PointIndices :
            /\ panSuccess[i] = Alone(i).panSuccess[1]
            /\ panSuccess[i] = "TRUE" =>
                 /\ padfX[i] = Alone(i).padfX[1]
                 /\ padfY[i] = Alone(i).padfY[1]

\* a batch on the per-point path whose first point failed and whose second
\* did not
C16_Witness ==
    /\ CallDone /\ ~usedWholeLine
    /\ call.nPointCount = 2
    /\ panSuccess[1] = "FALSE"
    /\ panSuccess[2] = "TRUE"

(***************************************************************************)
(* RPCTransformPoint on its own: a process that evaluates the forward      *)
(* transform of any of several models at any of several ground points.     *)
(* eval keeps the arguments and outputs of the last evaluation, whether it *)
(* found a normalized value above 1.5 (bOutOfRange), whether it wrote the  *)
(* debug message (bLogged), and how many evaluations have written it so    *)
(* far (nLogged).                                                          *)
(***************************************************************************)
EvalModels == { "linear", "constant", "dateline", "datelineFine" }

\* the ground points (longitude, latitude, height) a model is evaluated
\* at: some in its normalized range, some more than 1.5 scales from its
\* offsets, and for the models at the antimeridian points on both sides
EvalPoints(pszModel) ==
    CASE pszModel = "constant" ->
            { << -105 * FP, 40 * FP, 2000 * FP >>,
              << -105 * FP, 41 * FP, 2500 * FP >>,
              << -103 * FP, 40 * FP, 2000 * FP >> }
      [] pszModel \in { "dateline", "datelineFine" } ->
            { << 179 * FP + 9, 5 * FP, 0 >>, << -179 * FP - 9, 5 * FP, 0 >>,
              << 180 * FP + 1, 5 * FP, 0 >>, << -180 * FP - 1, 5 * FP, 0 >>,
              << 178 * FP, 5 * FP, 0 >>, << -178 * FP, 5 * FP, 2 >> }
      [] OTHER ->
            { << 10 * FP, 5 * FP, 0 >>, << 11 * FP + 2, 4 * FP, 2 * FP >>,
              << 13 * FP, 5 * FP, 0 >>, << 10 * FP, 5 * FP, 4 * FP >> }

\* Thread t enters RPCTransformPoint: it normalizes, tests the static
\* counter against the limit (line 392) and looks for values above 1.5.
\* bBelowLimit is what the test at line 392 gave.
EvaluateEnters(t, pszModel, p, r) ==
    running' = [ running EXCEPT ![t] =
                   [ model |-> pszModel, p |-> p, r |-> r,
                     bBelowLimit |->
                         nCountWarningsAboutAboveOneNormalizedValues
                         < MAX_ABS_VALUE_WARNINGS ] ]

EvaluateBegin(t, pszModel, p) ==
    /\ running[t] = NULL
    /\ EvaluateEnters(t, pszModel, p,
                      RPCTransformPoint([ sRPC |-> RPCModelOf(pszModel) ],
                                        p[1], p[2], p[3]))
    /\ UNCHANGED << psTransform, createArgs,
                    nCountWarningsAboutAboveOneNormalizedValues, call, padfX,
                    padfY, panSuccess, ret, usedWholeLine, points, inv,
                    psTree, pResult, psNewInfo, adfRatio, heap, eval,
                    bOnce >>

\* Thread t has written its messages: it increments the counter if it
\* wrote one (line 426), evaluates the polynomials and returns.
EvaluateReturns(e, bLogged) ==
    /\ eval' = [ model |-> e.model,
                 dfLong |-> e.p[1], dfLat |-> e.p[2], dfHeight |-> e.p[3],
                 pixel |-> e.r.pixel, line |-> e.r.line,
                 bOutOfRange |-> e.r.bWarned,
                 bLogged |-> bLogged,
                 nLogged |-> (IF eval = NULL THEN 0 ELSE eval.nLogged)
                             + (IF bLogged THEN 1 ELSE 0) ]
    /\ nCountWarningsAboutAboveOneNormalizedValues' =
           nCountWarningsAboutAboveOneNormalizedValues
           + (IF bLogged THEN 1 ELSE 0)

EvaluateEnd(t) ==
    /\ running[t] # NULL
    /\ EvaluateReturns(running[t],
                       running[t].bBelowLimit /\ running[t].r.bWarned)
    /\ running' = [ running EXCEPT ![t] = NULL ]
    /\ UNCHANGED << psTransform, createArgs, call, padfX, padfY, panSuccess,
                    ret, usedWholeLine, points, inv, psTree, pResult,
                    psNewInfo, adfRatio, heap, bOnce >>

NextEval ==
    \/ \E t \in Threads, pszModel \in EvalModels :
           \E p \in EvalPoints(pszModel) : EvaluateBegin(t, pszModel, p)
    \/ \E t \in Threads : EvaluateEnd(t)

SpecEval == Init /\ [][NextEval]_vars

Evaluated == eval # NULL

\* the evaluation of the model of C17 at its own offsets
AtOffsetsOfConstant ==
    /\ Evaluated
    /\ eval.model = "constant"
    /\ eval.dfLong = -105 * FP /\ eval.dfLat = 40 * FP
    /\ eval.dfHeight = 2000 * FP

\* C17 as stated: the forward transform of (-105, 40, 2000) by that model
\* is exactly pixel 5000.5, line 5000.5.
C17_AsStated ==
    AtOffsetsOfConstant =>
        /\ eval.pixel = 5000 * FP + Half
        /\ eval.line = 5000 * FP + Half

\* C17 amended: the 19 terms that are not the constant are 0, each
\* numerator and each denominator is exactly 1, and pixel and line are
\* scale * 1 + offset + 0.5, which is 10000.5.
C17_ScalePlusOffset ==
    AtOffsetsOfConstant =>
        /\ \A i \in 2..20 : RPCComputeTerms(0, 0, 0)[i] = 0
        /\ \A f \in { "adfSAMP_NUM_COEFF", "adfSAMP_DEN_COEFF",
                      "adfLINE_NUM_COEFF", "adfLINE_DEN_COEFF" } :
              RPCEvaluate(RPCComputeTerms(0, 0, 0), RPCModelConstant[f]) = FP
        /\ eval.pixel = RPCModelConstant.dfSAMP_SCALE
                        + RPCModelConstant.dfSAMP_OFF + Half
        /\ eval.line = RPCModelConstant.dfLINE_SCALE
                       + RPCModelConstant.dfLINE_OFF + Half
        /\ eval.pixel = 10000 * FP + Half
        /\ eval.line = 10000 * FP + Half
        /\ ~eval.bOutOfRange

C17_Witness == AtOffsetsOfConstant /\ eval.pixel = 10000 * FP + Half

(***************************************************************************)
(* The antimeridian.  The longitudes nearest to it that the arithmetic of  *)
(* the model can tell apart are 179.9 and -179.9, 0.2 degrees apart on the *)
(* ground.                                                                 *)
(***************************************************************************)
\* the last evaluation was of a model centred next to the antimeridian, at
\* one of the two longitudes nearest to it
NextToAntimeridian ==
    /\ Evaluated
    /\ eval.model \in { "dateline", "datelineFine" }
    /\ eval.dfLong \in { 179 * FP + 9, -179 * FP - 9 }

\* ... and that longitude is on the other side of it than the model's
\* centre
AcrossAntimeridian ==
    /\ NextToAntimeridian
    /\ fabs(eval.dfLong - RPCModelOf(eval.model).dfLONG_OFF) > 270 * FP

\* the forward transform by the model of the last evaluation, at the
\* longitude dfLong and the latitude and height of the last evaluation
SameModelAt(dfLong) ==
    RPCTransformPoint([ sRPC |-> RPCModelOf(eval.model) ], dfLong,
                      eval.dfLat, eval.dfHeight)

C19_AtMostTwentyWarnings ==
    /\ nCountWarningsAboutAboveOneNormalizedValues <= MAX_ABS_VALUE_WARNINGS
    /\ Evaluated => eval.nLogged <= MAX_ABS_VALUE_WARNINGS
    /\ (Evaluated /\ eval.bOutOfRange) =>
         /\ eval.pixel = SameModelAt(eval.dfLong).pixel
         /\ eval.line = SameModelAt(eval.dfLong).line

(***************************************************************************)
(* What a call of GDALRPCTransform changes.  A step of the call is the one *)
(* step that takes call from NULL to the call's arguments.                 *)
(***************************************************************************)
TransformStep == call = NULL /\ call' # NULL

\* the fields of the transformer C20 names
C20_Fields(T) ==
    [ sRPC |-> T.sRPC,
      adfPLToLatLongGeoTransform |-> T.adfPLToLatLongGeoTransform,
      dfRefZ |-> T.dfRefZ, bReversed |-> T.bReversed,
      dfPixErrThreshold |-> T.dfPixErrThreshold,
      dfHeightOffset |-> T.dfHeightOffset, dfHeightScale |-> T.dfHeightScale,
      nMaxIterations |-> T.nMaxIterations,
      adfDEMGeoTransform |-> T.adfDEMGeoTransform,
      adfDEMReverseGeoTransform |-> T.adfDEMReverseGeoTransform,
      pszRPCFootprint |-> T.pszRPCFootprint,
      poRPCFootprintPreparedGeom |-> T.poRPCFootprintPreparedGeom ]

InvPass == InvActive /\ inv.status = "running" /\ inv' # NULL /\ inv' # inv
\* the sampler at the guess the next pass starts from
SamplerAtGuess ==
    GDALRPCGetHeightAtLongLat(psTransform, inv.dfResultX, inv.dfResultY)
\* the raster value at the snapped cell, NONE when there is none
ValueAtSnap(h) ==
    LET p == InvSnapPosition(psTransform, h)
    IN  GDALRPCGetDEMHeight(psTransform, p.dfDEMPixel, p.dfDEMLine)
\* the stated substitute: the raster value at the snapped cell when a
\* raster is configured and has a value there, else the reference height
StatedSubstitute(h) ==
    IF HasRaster /\ ValueAtSnap(h) # NONE THEN ValueAtSnap(h)
    ELSE psTransform.dfRefZ

\* C21: a sampler failure in the first pass does not end the loop: the pass
\* evaluates the forward transform with the substitute height (the raster
\* value at the snapped cell when a raster is configured and that lookup
\* succeeds, else the reference height); a sampler failure in a later pass
\* fails the point at once, with no further forward evaluation.
C21_FirstFailureSubstitutes ==
    [][ (InvPass /\ ~SamplerAtGuess.bOK) =>
          IF inv.iIter = 0
          THEN /\ inv'.eStep # "demfail"
               /\ inv'.nEvals = 1
               /\ ~inv'.bSamplerOK
               /\ inv'.dfEvalHeight =
                      inv.dfUserHeight + StatedSubstitute(SamplerAtGuess)
          ELSE /\ inv'.status = "failed"
               /\ inv'.eStep = "demfail"
               /\ inv'.nEvals = inv.nEvals
               /\ ret' = "FALSE"
               /\ UNCHANGED << padfX, padfY >> ]_vars

\* a first pass that went on after a failed sampling, with the raster's
\* value at the snapped cell
C21_Witness ==
    /\ InvActive
    /\ inv.nEvals = 1
    /\ ~inv.bSamplerOK
    /\ inv.eStep \in { "newton", "converged" }
    /\ HasRaster
    /\ inv.dfEvalHeight # inv.dfUserHeight + psTransform.dfRefZ

\* a later pass that ended the loop on a failed sampling
LaterSamplingFailed ==
    InvActive /\ inv.eStep = "demfail" /\ inv.iIter > 0

\* the first pass of the loop went on after a failed sampling on a raster
FirstPassSubstituted ==
    /\ InvActive
    /\ HasRaster
    /\ inv.nEvals = 1
    /\ ~inv.bSamplerOK
    /\ inv.eStep # "demfail"
\* the DEM position is that of a cell of the raster
InRasterExtent(p) ==
    /\ 0 <= p.dfDEMPixel
    /\ p.dfDEMPixel < psTransform.poDS.nRasterXSize * FP
    /\ 0 <= p.dfDEMLine
    /\ p.dfDEMLine < psTransform.poDS.nRasterYSize * FP

\* C22 as stated: when the first pass's lookup fails with a raster
\* configured, the position retried is the nearest valid cell: its pixel is
\* in [0, rasterXSize) and its line in [0, rasterYSize), wherever outside
\* the extent (left, right, above, below, corner) the guess fell.
C22_AsStated ==
    FirstPassSubstituted =>
        InRasterExtent(InvSnapPosition(psTransform, SamplerAtEval))

\* the guess of the first pass fell above the raster
GuessAboveRaster == FirstPassSubstituted /\ SamplerAtEval.dfDEMLine < 0

(***************************************************************************)
(* The oscillation guard and the step boost of the inverse solver.         *)
(***************************************************************************)
\* the pass taken evaluated the forward transform and did not converge
InvPassNotConverged ==
    InvPass /\ inv'.eStep \in { "oscillation", "newton", "boost" }
\* the pass before left its delta: it took a Newton step
PreviousDeltaExists == inv.eStep \in { "newton", "boost" }
\* the error of the pass taken changed sign on both axes
BothSignsFlipped ==
    /\ inv'.dfPixelDeltaX * inv.dfPixelDeltaX < 0
    /\ inv'.dfPixelDeltaY * inv.dfPixelDeltaY < 0
\* the mean of the guesses a and b whose errors were da and db, each
\* weighted by the magnitude of the other's error
ErrorWeightedMean(a, da, b, db) ==
    RoundDiv(Abs(da) * b + Abs(db) * a, Abs(da) + Abs(db))

\* C23: in a pass that did not converge, the oscillation step is taken
\* exactly when a raster is configured, the previous pass left a delta and
\* both deltas changed sign; it replaces the guess by the error-weighted
\* mean of the current and the previous guess, resets the count of
\* consecutive small errors, takes no Newton step and uses up one pass of
\* the budget.  Without a raster it is never taken.
C23_OscillationStep ==
    [][ InvPassNotConverged =>
          /\ (inv'.eStep = "oscillation") <=>
                 (HasRaster /\ PreviousDeltaExists /\ BothSignsFlipped)
          /\ (inv'.eStep = "oscillation") =>
                 /\ inv'.dfResultX =
                        ErrorWeightedMean(inv.dfResultX, inv'.dfPixelDeltaX,
                                          inv.dfEvalX, inv.dfPixelDeltaX)
                 /\ inv'.dfResultY =
                        ErrorWeightedMean(inv.dfResultY, inv'.dfPixelDeltaY,
                                          inv.dfEvalY, inv.dfPixelDeltaY)
                 /\ inv'.nCountConsecutiveErrorBelow2 = 0
                 /\ inv'.dfBoostFactor = FP
                 /\ inv'.iIter = inv.iIter + 1
                 /\ inv'.nEvals = inv.nEvals + 1 ]_vars

\* an oscillation step was taken
C23_Witness == InvActive /\ inv.eStep = "oscillation"

\* the error of the pass taken is below 2 pixels
SmallError == inv'.dfError < 2 * FP
\* the factor of the step the pass taken may apply: 10 when a raster is
\* configured and the error, small in this pass, has been small in the 5 or
\* more passes counted before it
StatedBoostFactor ==
    IF HasRaster /\ inv.nCountConsecutiveErrorBelow2 >= 5 /\ SmallError
    THEN 10 * FP ELSE FP
\* the step of the pass taken, by the approximate geotransform gt
NewtonStepTaken(gt, dfBoostFactor) ==
    /\ inv'.dfResultX = inv.dfResultX
           - FMul(FMul(inv'.dfPixelDeltaX, gt[2]), dfBoostFactor)
           - FMul(FMul(inv'.dfPixelDeltaY, gt[3]), dfBoostFactor)
    /\ inv'.dfResultY = inv.dfResultY
           - FMul(FMul(inv'.dfPixelDeltaX, gt[5]), dfBoostFactor)
           - FMul(FMul(inv'.dfPixelDeltaY, gt[6]), dfBoostFactor)

\* C24 as stated: the Newton step is multiplied by 10 in exactly the passes
\* where a raster is configured and the error has stayed below 2 pixels
\* for at least 5 consecutive passes, this one being the last of them.
C24_AsStated ==
    [][ (InvPassNotConverged /\ inv'.eStep # "oscillation") =>
          ((inv'.dfBoostFactor = 10 * FP) <=>
               /\ HasRaster
               /\ SmallError
               /\ inv.nCountConsecutiveErrorBelow2 + 1 >= 5) ]_vars

\* C24: the Newton step is multiplied by 10 in exactly the passes where a
\* raster is configured, the error is below 2 pixels and it was below 2
\* pixels in the 5 or more passes counted before this one (six in a row);
\* in every other pass, and always without a raster, the factor is 1.  A
\* pass with an error of 2 pixels or more, or an oscillation step, restarts
\* the count; every other pass adds one to it.
C24_BoostAfterFiveSmallErrors ==
    [][ InvPassNotConverged =>
          /\ inv'.eStep # "oscillation" =>
                 /\ inv'.dfBoostFactor = StatedBoostFactor
                 /\ (inv'.eStep = "boost") <=> (StatedBoostFactor = 10 * FP)
                 /\ NewtonStepTaken(psTransform.adfPLToLatLongGeoTransform,
                                    StatedBoostFactor)
          /\ inv'.nCountConsecutiveErrorBelow2 =
                 IF ~SmallError \/ inv'.eStep = "oscillation" THEN 0
                 ELSE inv.nCountConsecutiveErrorBelow2 + 1 ]_vars

\* a step was multiplied by 10
C24_Witness ==
    /\ InvActive
    /\ inv.eStep = "boost"
    /\ inv.dfBoostFactor = 10 * FP
    /\ inv.nCountConsecutiveErrorBelow2 >= 6

\* six small errors in a row without a raster
SmallErrorsWithoutRaster ==
    /\ InvActive
    /\ ~HasRaster
    /\ inv.nCountConsecutiveErrorBelow2 >= 6

(***************************************************************************)
(* The seed of the inverse solver and its result.                          *)
(***************************************************************************)
\* the local affine approximation applied to the pixel and line solved for
SeedX ==
    psTransform.adfPLToLatLongGeoTransform[1]
    + FMul(psTransform.adfPLToLatLongGeoTransform[2], inv.dfPixel)
    + FMul(psTransform.adfPLToLatLongGeoTransform[3], inv.dfLine)
SeedY ==
    psTransform.adfPLToLatLongGeoTransform[4]
    + FMul(psTransform.adfPLToLatLongGeoTransform[5], inv.dfPixel)
    + FMul(psTransform.adfPLToLatLongGeoTransform[6], inv.dfLine)
InvSucceeded == InvActive /\ inv.status = "converged" /\ ret = "TRUE"

\* C28 as stated: the seed is never returned as the answer: a successful
\* result has had at least one update step applied to the seed.
C28_AsStated == InvSucceeded => inv.nEvals >= 2

\* C28: the seed starts the iteration, and it is returned as the answer,
\* with no update step applied, exactly when the first pass finds its error
\* below the threshold; every other successful result is the estimate the
\* update step of the pass before produced.
C28_SeedReturnedWhenWithinThreshold ==
    [][ (InvPass /\ inv'.status = "converged") =>
          /\ ret' = "TRUE"
          /\ padfX' = << inv.dfResultX >>
          /\ padfY' = << inv.dfResultY >>
          /\ IF inv.nEvals = 0
             THEN /\ inv.dfResultX = SeedX
                  /\ inv.dfResultY = SeedY
                  /\ inv'.dfError < psTransform.dfPixErrThreshold
             ELSE inv.eStep \in { "newton", "boost", "oscillation" } ]_vars

\* the seed returned as the answer, its error not zero
C28_Witness ==
    /\ InvSucceeded
    /\ inv.nEvals = 1
    /\ padfX = << SeedX >>
    /\ padfY = << SeedY >>
    /\ inv.dfError > 0

(***************************************************************************)
(* The longitude difference of RPCTransformPoint (lines 369-378) over      *)
(* whole ranges of longitudes: the local diffLong for a model offset       *)
(* dfLONG_OFF and a longitude dfLong, kept in eval.                        *)
(***************************************************************************)
LongitudeOffsets == { k * 90 * FP : k \in -2..2 }
Longitudes == { k * 45 * FP + e : k \in -10..10, e \in { -1, 0, 1 } }

WrapLongitude(dfLONG_OFF, dfLong) ==
    /\ eval' = [ model |-> "diffLong", dfLONG_OFF |-> dfLONG_OFF,
                 dfLong |-> dfLong,
                 diffLong |-> WrapDiffLong(dfLong - dfLONG_OFF) ]
    /\ UNCHANGED << psTransform, createArgs,
                    nCountWarningsAboutAboveOneNormalizedValues, call, padfX,
                    padfY, panSuccess, ret, usedWholeLine, points, inv,
                    psTree, pResult, psNewInfo, adfRatio, heap, running,
                    bOnce >>

NextWrap ==
    \E dfLONG_OFF \in LongitudeOffsets, dfLong \in Longitudes :
        WrapLongitude(dfLONG_OFF, dfLong)

SpecWrap == Init /\ [][NextWrap]_vars

Wrapped == eval # NULL
\* the difference before the wrap
RawDiffLong == eval.dfLong - eval.dfLONG_OFF
InClaimedRange == -630 * FP < RawDiffLong /\ RawDiffLong <= 630 * FP
WholeTurns ==
    { RawDiffLong, RawDiffLong + 360 * FP, RawDiffLong - 360 * FP }

\* C27 as stated: for a difference d with -630 < d <= 630 the wrapped
\* difference is d, d + 360 or d - 360 and lies in (-270, 270].
C27_AsStated ==
    (Wrapped /\ InClaimedRange) =>
        /\ eval.diffLong \in WholeTurns
        /\ -270 * FP < eval.diffLong
        /\ eval.diffLong <= 270 * FP

\* C27: for a difference d with -630 <= d <= 630 the wrapped difference is
\* d, d + 360 or d - 360 and lies in the closed interval [-270, 270]; it
\* is d itself exactly when -270 <= d <= 270, so that d = -270 is kept.
C27_WrappedIntoClosedInterval ==
    (Wrapped /\ -630 * FP <= RawDiffLong /\ RawDiffLong <= 630 * FP) =>
        /\ eval.diffLong \in WholeTurns
        /\ -270 * FP <= eval.diffLong
        /\ eval.diffLong <= 270 * FP
        /\ (eval.diffLong = RawDiffLong) <=>
               (-270 * FP <= RawDiffLong /\ RawDiffLong <= 270 * FP)

\* a difference just beyond the western limit, wrapped by a whole turn
C27_Witness ==
    /\ Wrapped
    /\ RawDiffLong = -270 * FP - 1
    /\ eval.diffLong = 90 * FP - 1

\* the difference -270 kept as it is
WesternLimitKept ==
    Wrapped /\ RawDiffLong = -270 * FP /\ eval.diffLong = -270 * FP

(***************************************************************************)
(* The elevation sampler called on its own: a caller that creates a        *)
(* transformer and calls GDALRPCGetHeightAtLongLat at a longitude and      *)
(* latitude, the arguments and what the call returned kept in eval.        *)
(***************************************************************************)
ConfigsSampler ==
    { [ BaseConfig EXCEPT !.dem = {d}, !.interp = {a}, !.missing = m,
                          !.srs = f ] :
        d \in {"dem.tif", "world.tif"}, a \in {"near", "bilinear"},
        m \in { {}, { << "0", ".", "5" >> } }, f \in { {}, {"EGM96"} } }

\* probes inside the rasters, at the antimeridian and beyond it, the last
\* row north of the rasters
ProbeLongitudes ==
    { -185 * FP, -180 * FP, -175 * FP, 9 * FP + Half, 175 * FP, 180 * FP,
      185 * FP }
ProbeLatitudes == { 5 * FP + Half, 6 * FP + Half, 9 * FP + Half }

Sample(dfXIn, dfYIn) ==
    /\ psTransform # NULL
    /\ eval' = [ model |-> "sampler", dfXIn |-> dfXIn, dfYIn |-> dfYIn,
                 h |-> GDALRPCGetHeightAtLongLat(psTransform, dfXIn, dfYIn) ]
    /\ UNCHANGED << psTransform, createArgs,
                    nCountWarningsAboutAboveOneNormalizedValues, call, padfX,
                    padfY, panSuccess, ret, usedWholeLine, points, inv,
                    psTree, pResult, psNewInfo, adfRatio, heap, running,
                    bOnce >>

\* the caller forgets the last result and destroys the transformer
SampleDone ==
    /\ psTransform # NULL
    /\ eval # NULL
    /\ eval' = NULL
    /\ psTransform' = NULL
    /\ UNCHANGED << createArgs, nCountWarningsAboutAboveOneNormalizedValues,
                    call, padfX, padfY, panSuccess, ret, usedWholeLine,
                    points, inv, psTree, pResult, psNewInfo, adfRatio, heap,
                    running, bOnce >>

NextSampler ==
    \/ \E cfg \in ConfigsSampler : Create(cfg)
    \/ \E dfXIn \in ProbeLongitudes, dfYIn \in ProbeLatitudes :
           Sample(dfXIn, dfYIn)
    \/ SampleDone

SpecSampler == Init /\ [][NextSampler]_vars

Sampled == psTransform # NULL /\ eval # NULL
\* the raster position of a longitude and latitude
RasterPosition(dfLong, dfLat) ==
    GDALApplyGeoTransform(psTransform.adfDEMReverseGeoTransform, dfLong,
                          dfLat)
\* the lookup at the probe itself failed
FirstLookupFailed ==
    LET p == RasterPosition(eval.dfXIn, eval.dfYIn)
    IN  GDALRPCGetDEMHeight(psTransform, p.x, p.y) = NONE
\* the raster spans the longitudes -180..180
SpansAllLongitudes == createArgs.dem = {"world.tif"}
\* the probe's longitude moved by a whole turn towards [-180, 180]
TurnedLongitude ==
    IF eval.dfXIn > 0 THEN eval.dfXIn - 360 * FP ELSE eval.dfXIn + 360 * FP
\* the last lookup of the call failed, and the missing-value or failure rule
\* gave the result
FailureRuleApplied ==
    IF createArgs.missing # {}
    THEN /\ eval.h.bOK
         /\ eval.h.dfDEMH = RequestedMissingValue
    ELSE ~eval.h.bOK

RetryFailedToo ==
    /\ Sampled
    /\ eval.h.nLookups = 2
    /\ eval.h.bLookupFailed
    /\ ~eval.h.bOK

(***************************************************************************)
(* When the row optimizer is engaged.                                      *)
(***************************************************************************)
SameLatitudeThroughout ==
    \A i \in PointIndices : call.padfY[i] = call.padfY[1]
NoRotationOrShear ==
    /\ psTransform.adfDEMReverseGeoTransform[3] = 0
    /\ psTransform.adfDEMReverseGeoTransform[5] = 0
\* the conditions the optimizer is stated to need
OptimizerApplicable ==
    /\ GroundToImage
    /\ call.nPointCount >= 10
    /\ HasRaster
    /\ psTransform.poCT = NULL
    /\ SameLatitudeThroughout
    /\ NoRotationOrShear
    /\ call.bDEMOptim
\* point i went through the per-point path: no block was read for it, and
\* its outcome is that of the loop body at lines 1923-1948
WentPerPoint(i) ==
    /\ points[i].idx = {}
    /\ points[i] = PerPointPath(i)

\* C26: the row optimizer is engaged for a ground-to-image call only when
\* the call has at least 10 points, a raster is configured, no coordinate
\* transformation is in use, every point has the same latitude, the inverse
\* geotransform has no rotation or shear and GDAL_RPC_DEM_OPTIM is on; when
\* one of these fails every point goes through the per-point path.
C26_OptimizerOnlyWhenApplicable ==
    (CallDone /\ GroundToImage) =>
        /\ usedWholeLine => OptimizerApplicable
        /\ ~OptimizerApplicable =>
               /\ ~usedWholeLine
               /\ \A i \in PointIndices : WentPerPoint(i)

\* the optimizer engaged on a row of ten points
C26_Witness ==
    /\ CallDone
    /\ usedWholeLine
    /\ OptimizerApplicable
    /\ call.nPointCount = 10

\* rows the optimizer was not applied to, by the condition that failed
RowInOtherFrame ==
    /\ CallDone /\ GroundToImage /\ call.nPointCount >= 10 /\ HasRaster
    /\ psTransform.poCT # NULL /\ SameLatitudeThroughout /\ call.bDEMOptim
RowOnShearedRaster ==
    /\ CallDone /\ GroundToImage /\ call.nPointCount >= 10 /\ HasRaster
    /\ ~NoRotationOrShear /\ SameLatitudeThroughout /\ call.bDEMOptim

(***************************************************************************)
(* The block the row optimizer reads, and the indices read from it.        *)
(***************************************************************************)
\* the window handed to GDALRPCTransformWholeLineWithDEM by the call
WindowOfCall == WholeLineWindow(psTransform, call)
\* the number of pixels of the interpolation kernel
KernelSize ==
    CASE psTransform.eResampleAlg = DRA_CubicSpline -> 16
      [] psTransform.eResampleAlg = DRA_Bilinear -> 4
      [] OTHER -> 1
KernelRows ==
    CASE psTransform.eResampleAlg = DRA_CubicSpline -> 4
      [] psTransform.eResampleAlg = DRA_Bilinear -> 2
      [] OTHER -> 1

\* C29: whenever the row optimizer engages, the window
\* [nXLeft, nXLeft + nXWidth) x [nYTop, nYTop + nYHeight) it reads lies
\* inside the raster, its height is that of the kernel (1, 2 or 4 rows),
\* and every index read from the block for a point lies in
\* [0, nXWidth * nYHeight), a point reading at most the pixels of one kernel.
C29_BlockIndicesInRange ==
    (CallDone /\ usedWholeLine) =>
        /\ 0 <= WindowOfCall.nXLeft
        /\ WindowOfCall.nXWidth >= 1
        /\ WindowOfCall.nXLeft + WindowOfCall.nXWidth
               <= psTransform.poDS.nRasterXSize
        /\ 0 <= WindowOfCall.nYTop
        /\ WindowOfCall.nYHeight = KernelRows
        /\ WindowOfCall.nYTop + WindowOfCall.nYHeight
               <= psTransform.poDS.nRasterYSize
        /\ \A i \in PointIndices :
               /\ Cardinality(points[i].idx) <= KernelSize
               /\ \A k \in points[i].idx :
                      /\ 0 <= k
                      /\ k < WindowOfCall.nXWidth * WindowOfCall.nYHeight

\* a row read with the cubic kernel, every point from 16 pixels
C29_Witness ==
    /\ CallDone
    /\ usedWholeLine
    /\ ~call.bRasterIOFails
    /\ psTransform.eResampleAlg = DRA_CubicSpline
    /\ \A i \in PointIndices : Cardinality(points[i].idx) = 16

(***************************************************************************)
(* Calls without a Z array.                                                *)
(***************************************************************************)
\* the call with an array of zero heights in place of the missing one
CallWithZeroHeights ==
    [ call EXCEPT !.bHasZ = TRUE,
                  !.padfZ = [ i \in 1..call.nPointCount |-> 0 ] ]
\* what the call with zero heights gives on the same transformer
WithZeroHeights == GDALRPCTransform(psTransform, CallWithZeroHeights)

\* C30: an image-to-ground call without a Z array fails as a whole before
\* any point is solved: every flag is FALSE, the call returns FALSE and the
\* X and Y arrays are unchanged.  A ground-to-image call without a Z array
\* gives what the call with a height of 0 at every point gives, in the
\* per-point path and in the row optimizer.
C30_MissingHeights ==
    (CallDone /\ ~call.bHasZ) =>
        IF GroundToImage
        THEN /\ points = WithZeroHeights.pts
             /\ padfX = WithZeroHeights.padfX
             /\ padfY = WithZeroHeights.padfY
             /\ panSuccess = WithZeroHeights.panSuccess
             /\ ret = WithZeroHeights.bRet
             /\ usedWholeLine = WithZeroHeights.bWholeLine
        ELSE /\ \A i \in PointIndices :
                    /\ panSuccess[i] = "FALSE"
                    /\ points[i].dfHeight = NONE
                    /\ points[i].nWarned = 0
             /\ ret = "FALSE"
             /\ padfX = call.padfX
             /\ padfY = call.padfY

\* an image-to-ground call on two points without a Z array
C30_Witness ==
    /\ CallDone
    /\ ~call.bHasZ
    /\ ~GroundToImage
    /\ call.nPointCount = 2
    /\ ret = "FALSE"
    /\ padfX = call.padfX

\* rows without a Z array through the optimizer, and points without one
\* through the per-point path, transformed
RowWithoutHeights ==
    /\ CallDone /\ ~call.bHasZ /\ GroundToImage /\ usedWholeLine
    /\ ret = "TRUE"
PointsWithoutHeights ==
    /\ CallDone /\ ~call.bHasZ /\ GroundToImage /\ ~usedWholeLine
    /\ call.nPointCount >= 1 /\ ret = "TRUE"

====
